---- MODULE Spec2Model ----
(***************************************************************************)
(* ckb-debugger: the debug orchestrator of src/ckb-debugger/src/main.rs.   *)
(* The model follows main() from the point where a machine is built        *)
(* (machine_init), loaded and charged with the transfer cycles, through    *)
(* the stepping loops of the modes and, for the gdb modes, through         *)
(* machine_sget, the resumable-session manager.                            *)
(*                                                                         *)
(* The program being debugged is an input: the instruction found at the    *)
(* program counter of the active machine is drawn from Instructions at     *)
(* every step.  The RISC-V core (decode, step) and the ckb-script syscalls *)
(* are libraries; they are modelled by their effect on the fields that     *)
(* main.rs reads: cycles, max_cycles, running, exit_code and the shared    *)
(* MachineContext.suspended_machines.                                      *)
(***************************************************************************)
EXTENDS Integers, Sequences, FiniteSets, TLC

VARIABLES
    mode,                \* matches_mode
    overflow_checks,     \* build profile: TRUE = arithmetic overflow panics
    verifier_max_cycles, \* --max-cycles
    program_bytes,       \* bytes returned by load_program
    transferred_cycles,  \* transferred_byte_cycles(bytes)
    pc,                  \* position in main / machine_sget
    machine,             \* the active machine
    machine_vec,         \* machine_sget: stack of paused parents
    suspended_machines,  \* MachineContext.suspended_machines
    spawn_data,          \* machine_sget: Option<SpawnData>
    specify,             \* machine_sget: remaining depth budget
    result,              \* Result of the run / of machine_sget
    report,              \* the lines printed when the loop of a mode has ended
    next_id,             \* identity given to the next machine built
    hist,                \* history of the session (observer, not program state)
    program,             \* verifier_program: the instructions in memory, by index
    verifier_script_version, \* --script-version
    matches_step,        \* occurrences of --step
    matches_skip_start,  \* --skip-start, as the address it names
    matches_skip_end,    \* --skip-end, as the address it names
    profile,             \* full mode: Profile::new of the program, --disable-overlapping-detection
    syscall_inputs,      \* what the clock and the random source hand to the syscalls of the run
    stdout,              \* the lines printed while the machine is run or served
    writer,              \* trace_dump: Option of the trace file and its content
    traces,              \* trace_dump: Vec<TraceItem>
    global_clk,          \* trace_dump: global_clk
    tagged_inst,         \* trace_dump: the instruction handed to the recording closure
    decoder_cache,       \* machine_sget: what the instruction cache of its decoder holds
    json_call            \* ckb-debugger-api: a call of run_json, its arguments and result

\* the variables of the loops that take the program instruction by instruction
stepper == <<profile, syscall_inputs, program, verifier_script_version,
             matches_step, matches_skip_start, matches_skip_end, stdout,
             writer, traces, global_clk, tagged_inst>>

\* the variables of the debugger, src/ckb-debugger/src/main.rs
debugger == <<mode, overflow_checks, verifier_max_cycles, program_bytes,
              transferred_cycles, pc, machine, machine_vec, suspended_machines,
              spawn_data, specify, result, report, next_id, hist, stepper,
              decoder_cache>>

vars == <<debugger, json_call>>

-----------------------------------------------------------------------------
(* Bounds of the model *)

WordMax == 2047         \* largest value of a cycle counter (u64::MAX in the program)
MaxSpecify == 3         \* largest --gdb-specify-depth tried
LowMaxCycles == 400     \* a max-cycle budget below the margin
HighMaxCycles == 1600   \* a max-cycle budget above the margin
SmallProgram == 1000    \* bytes loaded by load_program, a small binary
LargeProgram == 2400    \* bytes loaded by load_program, a larger binary
DeepMaxCycles == 1900   \* a max-cycle budget that lets a grandchild run
MaxReg == 2             \* highest register index an instruction names (31 in the program)
MaxImm == 7             \* largest immediate of an instruction (u32::MAX in the program)
MaxProgram == 3         \* instructions in the longest program
MaxConnections == 2     \* connections accepted by the listener of the gdb modes
MaxCycleLen == 3        \* characters in the longest max-cycle string given to run_json
CheapScript == 7        \* cycles a script of a mock transaction needs, a cheap one
CostlyScript == 70      \* cycles a script of a mock transaction needs, a costly one
EntryPc == 8            \* address the program is loaded at

(* Program constants *)

Margin == 500           \* main.rs:693 and :696
EcallCost == 500        \* estimate_cycles(ECALL), installed at main.rs:336
BytesPerCycle == 4      \* transferred_byte_cycles, used at main.rs:466
ExecEcall == 2043       \* main.rs:683
SpawnEcall == 2101      \* main.rs:691
NonZeroStatus == 254    \* std::process::exit(254), main.rs:422 and :451
HashLen == 66           \* hex_script_hash.len() != 66, lib.rs:84
HashBytes == 32         \* let mut b = [0u8; 32], lib.rs:87

\* cycles charged for an ordinary instruction: the model gives every
\* instruction the cost of an ecall
InstCost == EcallCost

Modulus == WordMax + 1

Modes == {"full", "fast", "gdb", "gdb_gdbstub", "trace_dump", "probe"}
ExitCodes == {0, 7}

None == <<>>
Some(x) == <<x>>

\* What full mode is given for its PProfMachine (main.rs:392-396): whether
\* Profile::new can read the debugging information of the program, and
\* matches.is_present("disable-overlapping-detection")
Profiles == [parsed : BOOLEAN, disable_overlapping_detection : BOOLEAN]
DefaultProfile == [parsed |-> TRUE, disable_overlapping_detection |-> FALSE]

\* What the clock and the random source of the host can hand to the TimeNow and
\* Random syscalls (main.rs:349-350) of a run, and the value of the runs whose
\* program calls neither
SyscallInputs == {MaxImm - 2, MaxImm - 1}
NoSyscallInput == MaxImm - 2

\* As File_create, an existing file opened as it is.
File_createKeeping(file) == file

\* matches_trace_file.map(|f| std::fs::File::create(f)), main.rs:527: the file
\* is created, or truncated if it exists
File_create(file) == IF file = None THEN None ELSE Some([json |-> None])

-----------------------------------------------------------------------------
(* Unsigned arithmetic of the cycle counters *)

Wrap(x) == x % Modulus

\* a - b on unsigned words: the wrapped value and whether it wrapped
USub(a, b) == [val |-> Wrap(a - b), ovf |-> a < b]

\* a + b on unsigned words
UAdd(a, b) == [val |-> Wrap(a + b), ovf |-> a + b >= Modulus]

\* ckb_script::cost_model::transferred_byte_cycles
transferred_byte_cycles(bytes) == (bytes + BytesPerCycle - 1) \div BytesPerCycle

-----------------------------------------------------------------------------
(* Machines *)

\* DefaultCoreMachine::new(isa, version, max_cycles) wrapped by the builder
machine_init(id, max) ==
    [id |-> id, cycles |-> 0, max_cycles |-> max, running |-> FALSE,
     exit_code |-> 0, updates |-> <<>>]

\* As add_cycles, for instructions that cost nothing.
add_cyclesFree(m, c) == [m |-> m, err |-> "ok"]

\* SupportMachine::add_cycles: checked add, then compared with max_cycles
add_cycles(m, c) ==
    IF UAdd(m.cycles, c).ovf THEN [m |-> m, err |-> "CyclesOverflow"]
    ELSE IF m.cycles + c > m.max_cycles THEN [m |-> m, err |-> "CyclesExceeded"]
    ELSE [m |-> [m EXCEPT !.cycles = m.cycles + c], err |-> "ok"]

\* The instruction the program has at the pc of the active machine, with what
\* the core makes of it: "invalid" does not decode, "fault" fails in execute, an
\* "ecall" is charged and handed to the syscalls (fails: the syscall returns an
\* error), "exit" is the exit syscall with its code.
Instructions ==
    {[kind |-> "plain", cost |-> InstCost, a7 |-> 0, code |-> 0, fails |-> FALSE],
     [kind |-> "fault", cost |-> InstCost, a7 |-> 0, code |-> 0, fails |-> TRUE],
     [kind |-> "invalid", cost |-> 0, a7 |-> 0, code |-> 0, fails |-> TRUE]}
    \cup {[kind |-> "ecall", cost |-> EcallCost, a7 |-> n, code |-> 0, fails |-> f] :
             n \in {ExecEcall, SpawnEcall}, f \in BOOLEAN}
    \cup {[kind |-> "exit", cost |-> EcallCost, a7 |-> 93, code |-> e, fails |-> FALSE] :
             e \in ExitCodes}

\* SupportMachine::step as main.rs drives it: decode, charge the cost, execute.
Step(m, inst) ==
    IF inst.kind = "invalid" THEN [m |-> m, err |-> "InvalidInstruction"]
    ELSE LET a == add_cycles(m, inst.cost)
         IN IF a.err # "ok" THEN a
            ELSE IF inst.fails THEN [m |-> a.m, err |-> "Fault"]
            ELSE IF inst.kind = "exit"
                 THEN [m |-> [a.m EXCEPT !.running = FALSE, !.exit_code = inst.code],
                       err |-> "ok"]
            ELSE [m |-> a.m, err |-> "ok"]

\* ckb_script::update_caller_machine(caller, callee_exit_code, callee_cycles, spawn_data)
update_caller_machine(caller, callee_exit_code, callee_cycles, sd) ==
    [caller EXCEPT
        !.cycles = Wrap(@ + callee_cycles),
        !.updates = Append(@, [exit_code |-> callee_exit_code,
                               cycles |-> callee_cycles,
                               spawn_data |-> sd])]

\* An entry of MachineContext.suspended_machines (ResumableMachine)
Resumable(variant, id) ==
    [variant |-> variant,
     machine |-> [machine_init(id, 0) EXCEPT !.running = TRUE],
     spawn_data |-> id]

\* What the history keeps of a machine at a handoff / of a child that stopped
AsCaller(m) == [id |-> m.id, cycles |-> m.cycles, max_cycles |-> m.max_cycles]
AsCallee(m) == [id |-> m.id, exit_code |-> m.exit_code, cycles |-> m.cycles]

\* prepared counts the children the context was given: the entries a
\* connection finds there and those the spawn syscalls of its steps push
NoHist == [pops |-> 0, spawn_pops |-> 0, resets |-> 0, unwinds |-> 0,
           budget |-> 0, prepared |-> 0, found |-> 0, last |-> "none",
           callee |-> [id |-> 0, exit_code |-> 0, cycles |-> 0],
           caller |-> [id |-> 0, cycles |-> 0, max_cycles |-> 0],
           log |-> <<>>,
           dropped |-> "ok",   \* what the step at main.rs:695 returned
           reason |-> "none",  \* how the debugging session of the connection ended
           first |-> None,     \* the outcome of the first of two runs, once it has ended
           inputs |-> 0,       \* the syscall inputs the first of two runs was handed
           connection |-> 1,   \* which connection of the listener is being served
           seen |-> <<>>,      \* the context as the first connection found it
           executes |-> 0]     \* calls of execute made by the trace_dump closure

-----------------------------------------------------------------------------
\* json_call where run_json is not called
NoCall == [pc |-> "none"]

\* The command lines and builds of the model; the context is the
\* MachineContext::default() of main.rs:323.
Init ==
    /\ mode \in Modes
    /\ overflow_checks \in BOOLEAN
    /\ verifier_max_cycles \in {LowMaxCycles, HighMaxCycles}
    /\ program_bytes \in {SmallProgram, LargeProgram}
    /\ transferred_cycles = 0
    /\ pc = "boot"
    /\ machine = machine_init(0, verifier_max_cycles)
    /\ machine_vec = <<>>
    /\ suspended_machines = <<>>
    /\ spawn_data = None
    /\ specify \in IF mode \in {"gdb", "gdb_gdbstub"} THEN 0 .. MaxSpecify ELSE {0}
    /\ result = "none"
    /\ report = <<>>
    /\ next_id = 1
    /\ hist = [NoHist EXCEPT !.budget = specify,
                              !.prepared = Len(suspended_machines)]
    /\ program = <<>>
    /\ verifier_script_version = 0
    /\ matches_step = 0
    /\ matches_skip_start = None
    /\ matches_skip_end = None
    /\ profile \in IF mode = "full" THEN Profiles ELSE {DefaultProfile}
    /\ syscall_inputs = NoSyscallInput
    /\ stdout = <<>>
    /\ writer = None
    /\ traces = <<>>
    /\ global_clk = 0
    /\ tagged_inst = None
    /\ decoder_cache = {}
    /\ json_call = NoCall

\* machine_init(); load_program; add_cycles(transferred_cycles)?; set_running(true).
\* Before it, trace_dump creates its trace file (main.rs:527) and full mode
\* builds the profile of the program, Profile::new(&verifier_program)? (:394),
\* whose error ends the process before anything is loaded.
Boot ==
    /\ pc = "boot"
    /\ LET t == transferred_byte_cycles(program_bytes)
           a == add_cycles(machine, t)
       IN IF mode = "full" /\ ~profile.parsed
          THEN /\ pc' = "error"
               /\ result' = "ProfileError"
               /\ UNCHANGED <<machine, transferred_cycles>>
          ELSE /\ transferred_cycles' = t
               /\ IF a.err # "ok"
                  THEN /\ pc' = "error"
                       /\ result' = a.err
                       /\ machine' = machine
                  ELSE /\ pc' = IF mode \in {"gdb", "gdb_gdbstub"}
                                THEN "sget_outer" ELSE "run"
                       /\ result' = result
                       /\ machine' = [a.m EXCEPT !.running = TRUE]
    /\ writer' = IF mode = "trace_dump" THEN File_create(writer) ELSE writer
    /\ UNCHANGED <<profile, syscall_inputs, program, verifier_script_version,
                   matches_step, matches_skip_start, matches_skip_end, stdout,
                   traces, global_clk, tagged_inst>>
    /\ UNCHANGED <<mode, overflow_checks, verifier_max_cycles, program_bytes,
                   machine_vec, suspended_machines, spawn_data, specify, report,
                   next_id, hist>>
    /\ UNCHANGED decoder_cache
    /\ UNCHANGED json_call

-----------------------------------------------------------------------------
(* machine_sget, main.rs:665-716 *)

\* The instruction cache of the decoder of machine_sget (main.rs:671) holds
\* decoded instructions by address.  The model keeps for each entry the image
\* it was decoded from: the machine that was active and the number of 2043
\* steps the session had made, each of which can replace the program.
Image(m) == <<m.id, hist.resets>>

\* decoder.decode(memory, pc), main.rs:681: the instruction of the active
\* machine at its pc enters the cache
Filled(cache, m) == cache \cup {Image(m)}

\* As reset_instructions_cache, the entries kept.
reset_instructions_cacheKept(cache) == cache

\* decoder.reset_instructions_cache(), main.rs:676 and :686
reset_instructions_cache(cache) == {}

\* As LoopRuns, a loop whose body runs before its condition is tested.
LoopRunsFirst(k, budget) == k # 0 \/ k = budget

\* while specify != 0, main.rs:675: whether the body runs, with k of the budget left
LoopRuns(k, budget) == k # 0

\* while specify != 0 { decoder.reset_instructions_cache(); ... } return Ok(machine)
SgetOuter ==
    /\ pc = "sget_outer"
    /\ IF LoopRuns(specify, hist.budget)
       THEN /\ pc' = "sget_inner"
            /\ result' = result
       ELSE /\ pc' = "session"
            /\ result' = "sget_ok"
    /\ hist' = [hist EXCEPT !.last = IF LoopRuns(specify, hist.budget)
                                      THEN "outer" ELSE "return"]
    /\ UNCHANGED stepper
    /\ UNCHANGED <<mode, overflow_checks, verifier_max_cycles, program_bytes,
                   transferred_cycles, machine, machine_vec, suspended_machines,
                   spawn_data, specify, report, next_id>>
    /\ decoder_cache' = IF LoopRuns(specify, hist.budget)
                        THEN reset_instructions_cache(decoder_cache)
                        ELSE {}
    /\ UNCHANGED json_call

\* while machine.running() fails: leave the inner loop
SgetInnerExit ==
    /\ pc = "sget_inner"
    /\ ~machine.running
    /\ pc' = "sget_tail"
    /\ hist' = [hist EXCEPT !.last = "stopped"]
    /\ UNCHANGED stepper
    /\ UNCHANGED <<mode, overflow_checks, verifier_max_cycles, program_bytes,
                   transferred_cycles, machine, machine_vec, suspended_machines,
                   spawn_data, specify, result, report, next_id>>
    /\ UNCHANGED decoder_cache
    /\ UNCHANGED json_call

\* decoder.decode(memory, pc)? fails: machine_sget returns the error
SgetDecodeErr ==
    /\ pc = "sget_inner"
    /\ machine.running
    /\ \E inst \in Instructions :
          /\ inst.kind = "invalid"
          /\ pc' = "error"
          /\ result' = Step(machine, inst).err
    /\ hist' = [hist EXCEPT !.last = "decode_err"]
    /\ UNCHANGED stepper
    /\ UNCHANGED <<mode, overflow_checks, verifier_max_cycles, program_bytes,
                   transferred_cycles, machine, machine_vec, suspended_machines,
                   spawn_data, specify, report, next_id>>
    /\ UNCHANGED decoder_cache
    /\ UNCHANGED json_call

\* As Question, the error swallowed: control stays in the loop.
QuestionSwallowed(err, next) == next

\* machine.step(&mut decoder)?: where control goes after the step, main.rs:708
Question(err, next) == IF err = "ok" THEN next ELSE "error"

\* neither boundary ecall: machine.step(&mut decoder)?
SgetStep ==
    /\ pc = "sget_inner"
    /\ machine.running
    /\ \E inst \in Instructions :
          /\ inst.kind # "invalid"
          /\ ~(inst.kind = "ecall" /\ inst.a7 \in {ExecEcall, SpawnEcall})
          /\ LET st == Step(machine, inst)
             IN /\ machine' = st.m
                /\ pc' = Question(st.err, "sget_inner")
                /\ result' = IF st.err = "ok" THEN result ELSE st.err
    /\ hist' = [hist EXCEPT !.last = "step"]
    /\ UNCHANGED stepper
    /\ UNCHANGED <<mode, overflow_checks, verifier_max_cycles, program_bytes,
                   transferred_cycles, machine_vec, suspended_machines,
                   spawn_data, specify, report, next_id>>
    /\ decoder_cache' = Filled(decoder_cache, machine)
    /\ UNCHANGED json_call

\* As ExecStep, with the counter moved to the reserve as the handoff does.
ExecStepReserving(m, inst) ==
    Step([m EXCEPT !.cycles = USub(m.max_cycles, Margin).val], inst)

\* machine.step(&mut decoder)? on the 2043 ecall, main.rs:684
ExecStep(m, inst) == Step(m, inst)

\* As ExecBudget, the budget left as it is.
ExecBudgetKept(k) == k

\* specify -= 1 after the 2043 ecall, main.rs:688
ExecBudget(k) == k - 1

\* opcode == OP_ECALL && A7 == 2043: step, specify -= 1, break
SgetExec ==
    /\ pc = "sget_inner"
    /\ machine.running
    /\ \E inst \in Instructions :
          /\ inst.kind = "ecall" /\ inst.a7 = ExecEcall
          /\ LET st == ExecStep(machine, inst)
             IN /\ machine' = st.m
                /\ IF st.err = "ok"
                   THEN /\ pc' = "sget_tail"
                        /\ result' = result
                        /\ specify' = ExecBudget(specify)
                        /\ hist' = [hist EXCEPT !.last = "exec", !.resets = @ + 1]
                   ELSE /\ pc' = "error"
                        /\ result' = st.err
                        /\ specify' = specify
                        /\ hist' = [hist EXCEPT !.last = "exec_err"]
    /\ UNCHANGED stepper
    /\ UNCHANGED <<mode, overflow_checks, verifier_max_cycles, program_bytes,
                   transferred_cycles, machine_vec, suspended_machines,
                   spawn_data, report, next_id>>
    /\ \E reset_signal \in BOOLEAN :
          decoder_cache' = IF pc' = "sget_tail" /\ reset_signal
                           THEN reset_instructions_cache(Filled(decoder_cache, machine))
                           ELSE Filled(decoder_cache, machine)
    /\ UNCHANGED json_call

\* What the spawn syscall leaves in the context when the child it built ran
\* out of its cycle limit: ResumableMachine::Spawn(child, spawn_data).
SpawnSuspends(parent, id) ==
    [variant |-> "Spawn",
     machine |-> [machine_init(id, USub(parent.max_cycles, parent.cycles).val)
                     EXCEPT !.running = TRUE],
     spawn_data |-> id]

\* As Adopt, the parent of a Spawn entry not pushed.
AdoptUnpushed(entry, parent, cycles_diff, vec, sd) ==
    IF entry.variant = "Spawn"
    THEN [machine |-> [entry.machine EXCEPT !.max_cycles = cycles_diff],
          machine_vec |-> vec,
          spawn_data |-> Some(entry.spawn_data)]
    ELSE [machine |-> parent, machine_vec |-> vec, spawn_data |-> sd]

\* if let ResumableMachine::Spawn(mut machine_child, spawn_data_child) = ... { ... }
\* main.rs:699-704, on the entry popped at :698
Adopt(entry, parent, cycles_diff, vec, sd) ==
    IF entry.variant = "Spawn"
    THEN [machine |-> [entry.machine EXCEPT !.max_cycles = cycles_diff],
          machine_vec |-> Append(vec, parent),
          spawn_data |-> Some(entry.spawn_data)]
    ELSE [machine |-> parent, machine_vec |-> vec, spawn_data |-> sd]

\* As PopSuspended, but an empty stack yields an entry that is not adopted.
PopSuspendedLenient(ctx) ==
    IF ctx = <<>>
    THEN [some |-> TRUE, entry |-> Resumable("Initial", 0), rest |-> <<>>]
    ELSE [some |-> TRUE, entry |-> ctx[Len(ctx)], rest |-> SubSeq(ctx, 1, Len(ctx) - 1)]

\* As PopSuspended, the entry read and left on the stack.
PopSuspendedPeek(ctx) ==
    IF ctx = <<>>
    THEN [some |-> FALSE, entry |-> Resumable("Initial", 0), rest |-> <<>>]
    ELSE [some |-> TRUE, entry |-> ctx[Len(ctx)], rest |-> ctx]

\* context.lock().unwrap().suspended_machines.pop(): Option of the last entry,
\* and the stack without it
PopSuspended(ctx) ==
    IF ctx = <<>>
    THEN [some |-> FALSE, entry |-> Resumable("Initial", 0), rest |-> <<>>]
    ELSE [some |-> TRUE, entry |-> ctx[Len(ctx)], rest |-> SubSeq(ctx, 1, Len(ctx) - 1)]

\* As PopParent, from the other end of the vector.
PopParentFifo(vec) ==
    IF vec = <<>>
    THEN [some |-> FALSE, machine |-> machine_init(0, 0), rest |-> <<>>]
    ELSE [some |-> TRUE, machine |-> vec[1], rest |-> SubSeq(vec, 2, Len(vec))]

\* machine_vec.pop(): Option of the last parent, and the vector without it
PopParent(vec) ==
    IF vec = <<>>
    THEN [some |-> FALSE, machine |-> machine_init(0, 0), rest |-> <<>>]
    ELSE [some |-> TRUE, machine |-> vec[Len(vec)], rest |-> SubSeq(vec, 1, Len(vec) - 1)]

\* The step of a 2101 ecall.  The spawn syscall of ckb-script builds the child
\* and runs it inside the step of its parent.  A child that ends there leaves
\* nothing behind and the step is a step like any other; a child that runs out
\* of the cycles left to it (suspends) is kept for later, and the error of the
\* child is the error of the step.
SpawnStep(m, inst, suspends) ==
    LET a == add_cycles(m, inst.cost)
    IN IF suspends /\ a.err = "ok"
       THEN [m |-> a.m, err |-> "CyclesExceeded", suspended |-> TRUE]
       ELSE [m |-> Step(m, inst).m, err |-> Step(m, inst).err, suspended |-> FALSE]

\* opcode == OP_ECALL && A7 == 2101, main.rs:691-707.  The result of the step
\* is dropped; what the spawn syscall did shows in the context only: the child
\* it suspended is the entry pushed there.
SgetSpawn ==
    /\ pc = "sget_inner"
    /\ machine.running
    /\ \E inst \in Instructions, suspends \in BOOLEAN :
          /\ inst.kind = "ecall" /\ inst.a7 = SpawnEcall
          /\ suspends => inst.fails
          /\ LET cycles_current == machine.cycles
                 reserve == USub(machine.max_cycles, Margin)
                 m1 == [machine EXCEPT !.cycles = reserve.val]
                 cycles_diff == USub(m1.cycles, cycles_current)
                 st == SpawnStep(m1, inst, suspends)
                 ctx1 == IF st.suspended
                         THEN Append(suspended_machines, SpawnSuspends(st.m, next_id))
                         ELSE suspended_machines
                 restore == UAdd(cycles_current, Margin)
                 m2 == [st.m EXCEPT !.cycles = restore.val]
             IN IF overflow_checks /\ reserve.ovf
                THEN /\ pc' = "panic" /\ result' = "overflow"
                     /\ UNCHANGED <<machine, machine_vec, suspended_machines,
                                    spawn_data, specify, next_id>>
                     /\ hist' = [hist EXCEPT !.last = "spawn_panic"]
                ELSE IF overflow_checks /\ cycles_diff.ovf
                THEN /\ pc' = "panic" /\ result' = "overflow"
                     /\ machine' = m1
                     /\ UNCHANGED <<machine_vec, suspended_machines,
                                    spawn_data, specify, next_id>>
                     /\ hist' = [hist EXCEPT !.last = "spawn_panic"]
                ELSE IF (overflow_checks /\ restore.ovf) \/ ~PopSuspended(ctx1).some
                THEN /\ pc' = "panic"
                     /\ result' = IF overflow_checks /\ restore.ovf
                                  THEN "overflow" ELSE "unwrap_none"
                     /\ machine' = IF overflow_checks /\ restore.ovf THEN st.m ELSE m2
                     /\ suspended_machines' = ctx1
                     /\ next_id' = IF Len(ctx1) > Len(suspended_machines)
                                   THEN next_id + 1 ELSE next_id
                     /\ UNCHANGED <<machine_vec, spawn_data, specify>>
                     /\ hist' = [hist EXCEPT !.last = "spawn_panic", !.caller = AsCaller(machine),
                                             !.found = Len(suspended_machines),
                                             !.prepared = @ + Len(ctx1) - Len(suspended_machines),
                                             !.dropped = st.err]
                ELSE LET p == PopSuspended(ctx1)
                         a == Adopt(p.entry, m2, cycles_diff.val, machine_vec, spawn_data)
                     IN /\ pc' = "sget_tail"
                        /\ result' = result
                        /\ machine' = a.machine
                        /\ machine_vec' = a.machine_vec
                        /\ spawn_data' = a.spawn_data
                        /\ suspended_machines' = p.rest
                        /\ specify' = specify - 1
                        /\ next_id' = IF Len(ctx1) > Len(suspended_machines)
                                      THEN next_id + 1 ELSE next_id
                        /\ hist' = [hist EXCEPT
                                      !.last = "spawn",
                                      !.pops = @ + 1,
                                      !.spawn_pops = IF p.entry.variant = "Spawn"
                                                     THEN @ + 1 ELSE @,
                                      !.caller = AsCaller(machine),
                                      !.found = Len(suspended_machines),
                                      !.prepared = @ + Len(ctx1) - Len(suspended_machines),
                                      !.dropped = st.err,
                                      !.log = IF p.entry.variant = "Spawn"
                                              THEN Append(@, [ev |-> "suspend", id |-> machine.id])
                                              ELSE @]
    /\ UNCHANGED stepper
    /\ UNCHANGED <<mode, overflow_checks, verifier_max_cycles, program_bytes,
                   transferred_cycles, report>>
    /\ decoder_cache' = Filled(decoder_cache, machine)
    /\ UNCHANGED json_call

\* if !machine.running() { machine = machine_vec.pop().unwrap();
\*     update_caller_machine(&mut machine, 0, 0, &spawn_data.clone().unwrap()).unwrap(); }
SgetTail ==
    /\ pc = "sget_tail"
    /\ IF machine.running
       THEN /\ pc' = "sget_outer"
            /\ hist' = [hist EXCEPT !.last = "tail", !.dropped = "ok"]
            /\ UNCHANGED <<machine, machine_vec, result>>
       ELSE IF ~PopParent(machine_vec).some \/ spawn_data = None
       THEN /\ pc' = "panic"
            /\ result' = "unwrap_none"
            /\ hist' = [hist EXCEPT !.last = "tail_panic", !.dropped = "ok"]
            /\ IF ~PopParent(machine_vec).some
               THEN UNCHANGED <<machine, machine_vec>>
               ELSE /\ machine' = PopParent(machine_vec).machine
                    /\ machine_vec' = PopParent(machine_vec).rest
       ELSE \E written \in BOOLEAN :
               LET parent == PopParent(machine_vec).machine
                   upd == update_caller_machine(parent, 0, 0, spawn_data[1])
               IN /\ machine_vec' = PopParent(machine_vec).rest
                  /\ machine' = IF written THEN upd ELSE parent
                  /\ pc' = IF written THEN "sget_outer" ELSE "panic"
                  /\ result' = IF written THEN result ELSE "unwrap_err"
                  /\ hist' = [hist EXCEPT
                                !.last = IF written THEN "unwind" ELSE "tail_panic",
                                !.unwinds = IF written THEN @ + 1 ELSE @,
                                !.callee = AsCallee(machine),
                                !.dropped = "ok",
                                !.log = Append(@, [ev |-> "resume", id |-> parent.id])]
    /\ UNCHANGED stepper
    /\ UNCHANGED <<mode, overflow_checks, verifier_max_cycles, program_bytes,
                   transferred_cycles, suspended_machines, spawn_data, specify,
                   report, next_id>>
    /\ UNCHANGED decoder_cache
    /\ UNCHANGED json_call

-----------------------------------------------------------------------------
(* The debugging session on the machine machine_sget returned, main.rs:473-503 *)

\* What gdb.run_blocking returns, as the match of main.rs:487-503 takes it: the
\* four values of DisconnectReason, GdbStubError::TargetError and any other
\* GdbStubError
DisconnectReasons ==
    {"Disconnect", "TargetExited", "TargetTerminated", "Kill", "TargetError",
     "GdbStubError"}

\* How the session can end in the state it is in: the target has to have
\* exited for TargetExited, a step of the target has to have failed for
\* TargetError; the client and the connection can end it at any time.  The
\* gdb branch (:473-475) has no reason to look at: process_packets_from
\* returns when the client has gone.
SessionEnds(md, at, m) ==
    IF md = "gdb" THEN {"Disconnect"}
    ELSE IF at = "session_failed" THEN {"TargetError"}
    ELSE {"Disconnect", "TargetTerminated", "Kill", "GdbStubError"}
         \cup (IF m.running THEN {} ELSE {"TargetExited"})

\* Whether h.run_till_exited() is called when the session has ended: the match
\* of main.rs:487-503 is in the gdb_gdbstub branch and calls it in the arms of
\* Disconnect (:489-492) and TargetExited (:493); the gdb branch (:473-475)
\* ends with process_packets_from
RunsTillExited(md, reason) ==
    md = "gdb_gdbstub" /\ reason \in {"Disconnect", "TargetExited"}

\* the Err(Error::External(..)) of the other arms, main.rs:494-502
SessionError(reason) ==
    CASE reason = "TargetTerminated" -> "Target terminated with signal"
      [] reason = "Kill" -> "GDB sent a kill command!"
      [] reason = "TargetError" -> "target encountered a fatal error"
      [] OTHER -> "gdbstub encountered a fatal error"

\* What the Err arms print: "Trace:", "Error:" with the error and "Machine:"
\* in full mode (main.rs:425-431), "Error: {}" in gdb_gdbstub (:514-516)
ErrorLines(md, m, err) ==
    IF md = "full"
    THEN <<[line |-> "Trace"], [line |-> "Error", value |-> err],
           [line |-> "Machine", value |-> m]>>
    ELSE <<[line |-> "Error", value |-> err]>>

\* The client is served: a step or continue packet makes the handler step the
\* machine (process_packets_from at :475, the event loop of gdb.run_blocking
\* at :487)
SessionStep ==
    /\ pc = "session"
    /\ machine.running
    /\ \E inst \in Instructions :
          LET st == Step(machine, inst)
          IN /\ machine' = st.m
             /\ pc' = IF st.err = "ok" THEN "session" ELSE "session_failed"
             /\ result' = IF st.err = "ok" THEN result ELSE st.err
    /\ hist' = [hist EXCEPT !.last = "session_step"]
    /\ UNCHANGED stepper
    /\ UNCHANGED <<mode, overflow_checks, verifier_max_cycles, program_bytes,
                   transferred_cycles, machine_vec, suspended_machines,
                   spawn_data, specify, report, next_id>>
    /\ UNCHANGED decoder_cache
    /\ UNCHANGED json_call

\* The session ends: process_packets_from returns (gdb), or gdb.run_blocking
\* returns and its result is matched (gdb_gdbstub, main.rs:487-503).  The arm
\* of Disconnect prints its line before it runs the target to completion, as
\* the arm of TargetExited does without the line; the other arms give an
\* error, which the match of :504-517 prints.
GdbSession ==
    /\ pc \in {"session", "session_failed"}
    /\ \E reason \in SessionEnds(mode, pc, machine) :
          /\ reason \in DisconnectReasons
          /\ IF mode = "gdb"
             THEN /\ pc' = "done"
                  /\ result' = result
                  /\ report' = report
             ELSE IF RunsTillExited(mode, reason)
             THEN /\ pc' = "run"
                  /\ result' = result
                  /\ report' = report
             ELSE /\ pc' = "done"
                  /\ result' = SessionError(reason)
                  /\ report' = ErrorLines(mode, machine, SessionError(reason))
          /\ stdout' = IF mode = "gdb_gdbstub" /\ reason = "Disconnect"
                       THEN Append(stdout,
                                   [line |-> "GDB client has disconnected. Running to completion..."])
                       ELSE stdout
          /\ hist' = [hist EXCEPT !.last = "disconnect", !.reason = reason]
    /\ UNCHANGED <<profile, syscall_inputs, program, verifier_script_version, matches_step,
                   matches_skip_start, matches_skip_end, writer, traces,
                   global_clk, tagged_inst>>
    /\ UNCHANGED <<mode, overflow_checks, verifier_max_cycles, program_bytes,
                   transferred_cycles, machine, machine_vec, suspended_machines,
                   spawn_data, specify, next_id>>
    /\ UNCHANGED decoder_cache
    /\ UNCHANGED json_call

-----------------------------------------------------------------------------
(* The stepping loops of the modes and the cycle breakdown they print *)

\* One instruction of a loop that runs the machine to completion: machine.run()
\* (full without --step at main.rs:403, fast at :441), h.run_till_exited() of
\* gdb_gdbstub (:491 and :493), and the loops of trace_dump without a trace
\* file (:555-576) and of probe (:622-648), which count or probe the
\* instruction between charging and executing it.  full with --step is
\* MachineStep, trace_dump with a trace file TraceDecode and TraceBody.
\* machine.run() of full mode is PProfMachine::run, which steps the profile
\* before the machine: unless the detection is disabled (:395) it fails when
\* it finds the stack overlapping the heap.
RunStep ==
    /\ pc = "run"
    /\ machine.running
    /\ mode = "full" => matches_step = 0
    /\ mode = "trace_dump" => writer = None
    /\ \E inst \in Instructions, overlapping \in BOOLEAN :
          LET detected == /\ overlapping
                          /\ mode = "full"
                          /\ ~profile.disable_overlapping_detection
                          /\ inst.kind # "invalid"
              st == IF detected THEN [m |-> machine, err |-> "External"]
                    ELSE Step(machine, inst)
              closure == inst.kind # "invalid" /\ add_cycles(machine, inst.cost).err = "ok"
          IN /\ overlapping => detected
             /\ machine' = st.m
             /\ pc' = IF st.err = "ok" THEN "run" ELSE "failed"
             /\ result' = IF st.err = "ok" THEN result ELSE st.err
             /\ global_clk' = IF mode = "trace_dump" /\ closure
                              THEN global_clk + 1 ELSE global_clk
    /\ hist' = [hist EXCEPT !.last = "run"]
    /\ UNCHANGED <<profile, syscall_inputs, program, verifier_script_version, matches_step,
                   matches_skip_start, matches_skip_end, stdout, writer, traces,
                   tagged_inst>>
    /\ UNCHANGED <<mode, overflow_checks, verifier_max_cycles, program_bytes,
                   transferred_cycles, machine_vec, suspended_machines,
                   spawn_data, specify, report, next_id>>
    /\ UNCHANGED decoder_cache
    /\ UNCHANGED json_call

\* Which modes print the breakdown for a run that ended ok / with an error
PrintsBreakdown(m, ok) ==
    \/ m \in {"fast", "trace_dump", "probe"}
    \/ m \in {"full", "gdb_gdbstub"} /\ ok

\* "Total cycles consumed", "Transfer cycles: {}, running cycles: {}"
Breakdown(total, transfer) ==
    [total |-> total, transfer |-> transfer,
     running |-> USub(total, transfer).val]

\* "Run result: {:?}": the exit code of an Ok run, the error of a failed one
RunResult(m, ok, err) == IF ok THEN m.exit_code ELSE err

\* The first two lines of a report, which are printed before the running
\* cycles are computed: "Run result" ("Exit code" in gdb_gdbstub, main.rs:505)
\* and "Total cycles consumed"
ReportHead(md, m, ok, err) ==
    <<[line |-> IF md = "gdb_gdbstub" THEN "Exit code" ELSE "Run result",
       value |-> RunResult(m, ok, err)],
      [line |-> "Total cycles consumed", value |-> m.cycles]>>

\* "Transfer cycles: {}, running cycles: {}"
BreakdownLine(total, transfer) ==
    [line |-> "Transfer cycles", transfer |-> Breakdown(total, transfer).transfer,
     running |-> Breakdown(total, transfer).running]

\* The status the process ends with after the report: full (Ok arm, main.rs:421)
\* and fast (:449) call std::process::exit(254) for a non-zero exit code; every
\* other path reaches the Ok(()) main returns.
ExitStatus(md, ok, data) ==
    IF md \in {"full", "fast"} /\ ok /\ data # 0 THEN NonZeroStatus ELSE 0

\* The loop has ended: print the result and the breakdown, or the error, and
\* end the process.  The subtraction of the third line panics in a checked
\* build when the total is below the transfer cycles, after the first two
\* lines have been printed.
Report ==
    /\ pc \in {"run", "failed"}
    /\ pc = "run" => ~machine.running
    /\ mode # "gdb"
    /\ LET ok == pc = "run"
       IN IF ~PrintsBreakdown(mode, ok)
          THEN /\ pc' = "done"
               /\ report' = ErrorLines(mode, machine, result)
               /\ result' = result
          ELSE IF overflow_checks /\ USub(machine.cycles, transferred_cycles).ovf
          THEN /\ pc' = "panic"
               /\ report' = ReportHead(mode, machine, ok, result)
               /\ result' = "overflow"
          ELSE /\ pc' = IF ExitStatus(mode, ok, machine.exit_code) = 0
                        THEN "done" ELSE "exit"
               /\ report' = Append(ReportHead(mode, machine, ok, result),
                                   BreakdownLine(machine.cycles, transferred_cycles))
               /\ result' = IF ok THEN "exited" ELSE result
    /\ hist' = [hist EXCEPT !.last = "report"]
    /\ UNCHANGED stepper
    /\ UNCHANGED <<mode, overflow_checks, verifier_max_cycles, program_bytes,
                   transferred_cycles, machine, machine_vec, suspended_machines,
                   spawn_data, specify, next_id>>
    /\ UNCHANGED decoder_cache
    /\ UNCHANGED json_call

\* The breakdown a complete report holds: the run result, the total and the
\* transfer and running cycles of its three lines; None when the report is not
\* complete
Printed ==
    IF Len(report) = 3 /\ report[3].line = "Transfer cycles"
    THEN Some([run_result |-> report[1].value, total |-> report[2].value,
               transfer |-> report[3].transfer, running |-> report[3].running])
    ELSE None

-----------------------------------------------------------------------------
Next ==
    \/ Boot
    \/ SgetOuter
    \/ SgetInnerExit
    \/ SgetDecodeErr
    \/ SgetStep
    \/ SgetExec
    \/ SgetSpawn
    \/ SgetTail
    \/ SessionStep
    \/ GdbSession
    \/ RunStep
    \/ Report

Spec == Init /\ [][Next]_vars

-----------------------------------------------------------------------------
(* Instructions as the trace recorder sees them, main.rs:718-813 *)

\* Opcode names as instruction_opcode_name returns them, written token by
\* token: <<"JALR", "_", "VERSION0">> is "JALR_VERSION0".
Name1(a) == <<a>>
Name2(a, b) == <<a, "_", b>>
Name3(a, b, c) == <<a, "_", b, "_", c>>

\* TaggedInstruction::try_from: the format each opcode is tagged with
FormatOpcodes ==
    [Itype |-> {Name1("ADDI"), Name2("JALR", "VERSION0"), Name2("JALR", "VERSION1"),
                Name2("LD", "VERSION0"), Name2("LD", "VERSION1")},
     Rtype |-> {Name1("ADD"), Name1("CLZ"), Name1("ECALL")},
     Stype |-> {Name1("SD"), Name1("BEQ")},
     Utype |-> {Name1("LUI"), Name3("CUSTOM", "LOAD", "IMM"),
                Name3("FAR", "JUMP", "REL"), Name3("FAR", "JUMP", "ABS")},
     R4type |-> {Name2("WIDE", "MUL")},
     R5type |-> {Name1("ADD3A")}]

\* The accessors each format has
FormatFields ==
    [Itype |-> {"rd", "rs1", "imm"},
     Rtype |-> {"rd", "rs1", "rs2"},
     Stype |-> {"rs1", "rs2", "imm"},
     Utype |-> {"rd", "imm"},
     R4type |-> {"rd", "rs1", "rs2"},
     R5type |-> {"rd", "rs1", "rs2"}]

Formats == DOMAIN FormatOpcodes
Regs == 0 .. MaxReg
Imms == {0, 1, MaxImm}
Lengths == {2, 4}

\* the values of a field in format f: D if the format has the field, else 0
FieldValues(f, field, D) == IF field \in FormatFields[f] THEN D ELSE {0}

\* The instruction set an opcode belongs to: the base set, the bit-manipulation
\* extension, or the fused macro-operations
IsaOf(op) ==
    IF op = Name1("CLZ") THEN "b"
    ELSE IF op \in FormatOpcodes.R4type \cup FormatOpcodes.R5type
                  \cup {Name3("FAR", "JUMP", "REL"), Name3("FAR", "JUMP", "ABS")}
    THEN "mop"
    ELSE "imc"

\* An instruction: its format and opcode, its length, the fields of its format,
\* the instruction set it belongs to, its cost, and what execute makes of it.
Inst(f, op, len, rd, rs1, rs2, imm) ==
    [format |-> f, opcode |-> op, length |-> len, rd |-> rd, rs1 |-> rs1,
     rs2 |-> rs2, imm |-> imm, isa |-> IsaOf(op), cost |-> InstCost,
     kind |-> "plain", code |-> 0]

\* The values a TaggedInstruction can take
TaggedInstructions ==
    UNION {{Inst(f, op, len, rd, rs1, rs2, imm) :
               op \in FormatOpcodes[f], len \in Lengths,
               rd \in FieldValues(f, "rd", Regs), rs1 \in FieldValues(f, "rs1", Regs),
               rs2 \in FieldValues(f, "rs2", Regs), imm \in FieldValues(f, "imm", Imms)} :
           f \in Formats}

\* str::split("_"): the pieces of a name between its underscores
RECURSIVE Split(_)
Split(name) ==
    IF name = <<>> THEN << <<>> >>
    ELSE IF Head(name) = "_" THEN << <<>> >> \o Split(Tail(name))
    ELSE LET r == Split(Tail(name))
         IN << <<Head(name)>> \o Head(r) >> \o Tail(r)

\* instruction_opcode_name(..).split("_").next().unwrap().to_string(), main.rs:752-757
RecordedOpcode(name) == Head(Split(name))

\* The operand slots of a TracedInstruction
Operands(a, b, c, ib, ic) ==
    [op_a |-> a, op_b |-> b, op_c |-> c, imm_b |-> ib, imm_c |-> ic]

\* TaggedInstruction::Itype(i), main.rs:762-772
ItypeOperands(i) == Operands(i.rd, i.rs1, i.imm, FALSE, TRUE)

\* TaggedInstruction::Rtype(r), main.rs:773-783
RtypeOperands(r) == Operands(r.rd, r.rs1, r.rs2, FALSE, FALSE)

\* As StypeOperands, base register first.
StypeBaseFirst(st) == Operands(st.rs1, st.rs2, st.imm, FALSE, FALSE)

\* TaggedInstruction::Stype(s), main.rs:784-794
StypeOperands(st) == Operands(st.rs2, st.rs1, st.imm, FALSE, FALSE)

\* TaggedInstruction::Utype(u), main.rs:795-805
UtypeOperands(u) == Operands(u.rd, u.imm, 0, TRUE, FALSE)

\* As TracedInstruction_new, the fused formats recorded like the register format.
TracedInstruction_newFused(i) ==
    Some([opcode |-> RecordedOpcode(i.opcode), instruction |-> i,
          length |-> i.length] @@ RtypeOperands(i))

\* TracedInstruction::new, main.rs:751-813: Some(record), or None where it panics
TracedInstruction_new(i) ==
    LET head == [opcode |-> RecordedOpcode(i.opcode), instruction |-> i,
                 length |-> i.length]
    IN CASE i.format = "Itype" -> Some(head @@ ItypeOperands(i))
         [] i.format = "Rtype" -> Some(head @@ RtypeOperands(i))
         [] i.format = "Stype" -> Some(head @@ StypeOperands(i))
         [] i.format = "Utype" -> Some(head @@ UtypeOperands(i))
         [] i.format \in {"R4type", "R5type"} -> None

\* TraceItem::new, main.rs:740-747
TraceItem_new(clk, at, registers, instruction) ==
    [global_clk |-> clk, pc |-> at, registers |-> registers,
     instruction |-> instruction]

-----------------------------------------------------------------------------
(* The program in memory, the decoder and the core, as the stepping loops of
   main.rs use them (decode, add_cycles, execute) *)

\* An ecall and what the syscalls make of it: "exit" stops the machine with
\* the code, "syscall" is a call of TimeNow or Random, "exec" the 2043 ecall,
\* which loads the program its code names in place of the running one
Ecall(kind, code) ==
    [Inst("Rtype", Name1("ECALL"), 4, 0, 0, 0, 0)
        EXCEPT !.kind = kind, !.code = code, !.cost = EcallCost]

\* The instructions the programs of the model are made of
ProgramInstructions ==
    {Inst("Itype", Name1("ADDI"), 2, 1, 1, 0, 1),
     Inst("Rtype", Name1("CLZ"), 4, 1, 1, 0, 0),
     [Inst("Stype", Name1("SD"), 4, 0, 1, 2, MaxImm) EXCEPT !.kind = "fault"],
     Ecall("syscall", 0)}
    \cup {Ecall("exit", e) : e \in ExitCodes}

\* The stack pointer, x2
SP == 2

\* The instructions of the programs fast mode, full mode and machine_step are
\* compared on: with the 2043 ecall, and with an ADDI on the stack pointer
\* that leaves the stack overlapping the heap
AgreeInstructions ==
    {Inst("Itype", Name1("ADDI"), 2, 1, 1, 0, 1),
     [Inst("Itype", Name1("ADDI"), 2, SP, SP, 0, MaxImm) EXCEPT !.kind = "overlap"],
     [Inst("Stype", Name1("SD"), 4, 0, 1, 2, MaxImm) EXCEPT !.kind = "fault"]}
    \cup {Ecall("exec", e) : e \in ExitCodes \ {0}}
    \cup {Ecall("exit", e) : e \in ExitCodes}

\* The instructions of the programs whose trace is looked at: the compressed
\* ADDI and load-immediate (C.LI, which the decoder hands over as
\* CUSTOM_LOAD_IMM), the jump as a decoder of version 0 names it, and the exit
TraceInstructions ==
    {Inst("Itype", Name1("ADDI"), 2, 1, 1, 0, 1),
     Inst("Utype", Name3("CUSTOM", "LOAD", "IMM"), 2, 1, 0, 0, MaxImm),
     [Inst("Itype", Name2("JALR", "VERSION0"), 4, 0, 1, 0, 1) EXCEPT !.kind = "jump"],
     Ecall("exit", 0)}

\* The programs: every sequence of at most n instructions of a set
RECURSIVE ProgramsOf(_, _)
ProgramsOf(S, n) ==
    IF n = 0 THEN {<<>>}
    ELSE ProgramsOf(S, n - 1) \cup
         {Append(p, i) : p \in {q \in ProgramsOf(S, n - 1) : Len(q) = n - 1},
                         i \in S}

Programs(n) == ProgramsOf(ProgramInstructions, n)

\* The program the exec syscall loads, at the address of the one it replaces:
\* in the model a program that exits at once with the code the ecall names
ExecImage(code) == <<Ecall("exit", code)>>

\* What is in the memory of a machine: the program main loaded, or the one its
\* last exec loaded
Memory(m, prog) == IF m.image = None THEN prog ELSE ExecImage(m.image[1])

\* the address of the k-th instruction of a program loaded at EntryPc
RECURSIVE AddressOf(_, _)
AddressOf(prog, k) ==
    IF k = 1 THEN EntryPc ELSE AddressOf(prog, k - 1) + prog[k - 1].length

\* ScriptVersion::vm_isa: the instruction sets of a script version
vm_isa(version) ==
    IF version = 0 THEN {"imc"}
    ELSE IF version = 1 THEN {"imc", "b", "mop"}
    ELSE {"imc", "a", "b", "mop"}

\* As TraceDecoderVersion, the configured version.
TraceDecoderConfigured(version) == version

\* let verifier_script_version = ScriptVersion::V0, main.rs:551: the version the
\* decoder of trace_dump is built with, whatever --script-version says
TraceDecoderVersion(version) == 0

\* build_decoder(isa, version) and decoder.decode(memory, pc): the instruction at
\* the address, an error if there is none or the decoder does not know it
decode(isa, prog, at) ==
    LET ks == {k \in 1 .. Len(prog) : AddressOf(prog, k) = at}
    IN IF ks = {} THEN [err |-> "InvalidInstruction", inst |-> None]
       ELSE LET i == prog[CHOOSE k \in ks : TRUE]
            IN IF i.isa \in isa THEN [err |-> "ok", inst |-> Some(i)]
               ELSE [err |-> "InvalidInstruction", inst |-> None]

\* the value an instruction writes to its destination register
Written(i, registers) ==
    CASE i.format = "Itype" -> Wrap(registers[i.rs1] + i.imm)
      [] i.format = "Utype" -> i.imm
      [] OTHER -> Wrap(registers[i.rs1] + registers[i.rs2])

\* What TimeNow and Random (Box::new(TimeNow::new()), Box::new(Random::new()),
\* main.rs:349-350) write to the return register: what the clock or the random
\* source of the host hands them in this run
SyscallReturn(i, inputs) == inputs

\* ckb_vm::instructions::execute(inst, &mut machine); an ecall goes to the
\* syscalls machine_init installed for the script version (main.rs:340-351),
\* of which exec exists from version 1 on
execute(i, m, inputs) ==
    IF i.kind = "fault" THEN [m |-> m, err |-> "Fault"]
    ELSE IF i.kind = "syscall"
    THEN [m |-> [m EXCEPT !.pc = @ + i.length,
                          !.registers = [@ EXCEPT ![1] = SyscallReturn(i, inputs)]],
          err |-> "ok"]
    ELSE IF i.kind = "exit"
    THEN [m |-> [m EXCEPT !.pc = @ + i.length, !.running = FALSE, !.exit_code = i.code],
          err |-> "ok"]
    ELSE IF i.kind = "exec"
    THEN IF m.syscalls < 1 THEN [m |-> m, err |-> "InvalidEcall"]
         ELSE [m |-> [m EXCEPT !.pc = EntryPc,
                               !.registers = [r \in Regs |-> 0],
                               !.overlapping = FALSE,
                               !.image = Some(i.code),
                               !.reset_signal = TRUE],
               err |-> "ok"]
    ELSE IF i.kind = "jump"
    THEN [m |-> [m EXCEPT !.pc = 2 * (Wrap(m.registers[i.rs1] + i.imm) \div 2),
                          !.registers = IF i.rd = 0 THEN @
                                        ELSE [@ EXCEPT ![i.rd] = m.pc + i.length]],
          err |-> "ok"]
    ELSE [m |-> [m EXCEPT !.pc = @ + i.length,
                          !.registers = IF i.format = "Stype" \/ i.rd = 0 THEN @
                                        ELSE [@ EXCEPT ![i.rd] = Written(i, m.registers)],
                          !.overlapping = @ \/ i.kind = "overlap"],
          err |-> "ok"]

\* The rest of machine.step once the instruction is decoded: charge the cost,
\* execute
StepDecoded(m, d, inputs) ==
    IF d.err # "ok" THEN [m |-> m, err |-> d.err]
    ELSE LET a == add_cycles(m, d.inst[1].cost)
         IN IF a.err # "ok" THEN a ELSE execute(d.inst[1], a.m, inputs)

\* machine.step(&mut decoder) with a decoder whose instruction cache holds
\* nothing stale: decode at the pc, charge the cost, execute
StepAt(m, prog, isa, inputs) ==
    StepDecoded(m, decode(isa, Memory(m, prog), m.pc), inputs)

\* decoder.decode(memory, pc) with the instruction cache of the decoder, which
\* holds the instructions decoded since it was built or reset, by address: an
\* address found there is not read from memory again
decode_cached(cache, isa, mem, at) ==
    LET hit == {e \in cache : e[1] = at}
    IN IF hit # {} THEN [err |-> "ok", inst |-> Some((CHOOSE e \in hit : TRUE)[2])]
       ELSE decode(isa, mem, at)

\* the instruction cache after a decode
Cached(cache, at, d) == IF d.err = "ok" THEN cache \cup {<<at, d.inst[1]>>} ELSE cache

\* machine.run(): step until the machine stops or a step fails.  The loop
\* resets the instruction cache of its decoder whenever the machine raises
\* reset_signal, as main.rs:685-687 does for machine_sget, so that no step
\* finds a stale instruction there.
RECURSIVE run(_, _, _, _)
run(m, prog, isa, inputs) ==
    IF ~m.running THEN [m |-> m, err |-> "ok"]
    ELSE LET st == StepAt([m EXCEPT !.reset_signal = FALSE], prog, isa, inputs)
         IN IF st.err # "ok" THEN st ELSE run(st.m, prog, isa, inputs)

\* PProfMachine::run, the machine.run() of full mode (main.rs:403): as run, with
\* the profile stepped before the machine.  The step of the profile decodes
\* the instruction and, unless the detection is disabled (:395), fails when
\* the stack pointer has come to overlap the heap.
RECURSIVE pprof_run(_, _, _, _, _)
pprof_run(m, prog, isa, inputs, prof) ==
    IF ~m.running THEN [m |-> m, err |-> "ok"]
    ELSE LET m0 == [m EXCEPT !.reset_signal = FALSE]
             d == decode(isa, Memory(m0, prog), m0.pc)
         IN IF d.err # "ok" THEN [m |-> m0, err |-> d.err]
            ELSE IF ~prof.disable_overlapping_detection /\ m0.overlapping
            THEN [m |-> m0, err |-> "External"]
            ELSE LET st == StepDecoded(m0, d, inputs)
                 IN IF st.err # "ok" THEN st
                    ELSE pprof_run(st.m, prog, isa, inputs, prof)

\* machine_init() as the stepping loops see it (main.rs:324-354): the core with
\* its pc at the entry of the program, its registers, the script version its
\* syscalls were generated for (:340-341), the program in its memory, and
\* whether its stack has come to overlap its heap
core_init(max, version) ==
    machine_init(0, max) @@
    [pc |-> EntryPc, registers |-> [r \in Regs |-> 0], syscalls |-> version,
     image |-> None, reset_signal |-> FALSE, overlapping |-> FALSE]

-----------------------------------------------------------------------------
(* trace_dump, main.rs:524-590 *)

\* while machine.running() && step_result.is_ok(): decode at the pc and charge
\* the cost of the instruction, main.rs:555-562
TraceDecode ==
    /\ pc = "run"
    /\ mode = "trace_dump"
    /\ machine.running
    /\ LET d == decode_cached(decoder_cache,
                              vm_isa(TraceDecoderVersion(verifier_script_version)),
                              Memory(machine, program), machine.pc)
           a == add_cycles(machine, d.inst[1].cost)
       IN IF d.err # "ok"
          THEN /\ pc' = "failed"
               /\ result' = d.err
               /\ UNCHANGED <<machine, tagged_inst>>
          ELSE IF a.err # "ok"
          THEN /\ pc' = "failed"
               /\ result' = a.err
               /\ UNCHANGED <<machine, tagged_inst>>
          ELSE /\ pc' = "closure"
               /\ result' = result
               /\ machine' = a.m
               /\ tagged_inst' = d.inst
    /\ hist' = [hist EXCEPT !.last = "decode"]
    /\ UNCHANGED <<mode, overflow_checks, verifier_max_cycles, program_bytes,
                   transferred_cycles, machine_vec, suspended_machines,
                   spawn_data, specify, report, next_id>>
    /\ UNCHANGED <<profile, syscall_inputs, program, verifier_script_version, matches_step,
                   matches_skip_start, matches_skip_end, stdout, writer, traces,
                   global_clk>>
    /\ decoder_cache' =
          Cached(decoder_cache, machine.pc,
                 decode_cached(decoder_cache,
                               vm_isa(TraceDecoderVersion(verifier_script_version)),
                               Memory(machine, program), machine.pc))
    /\ UNCHANGED json_call

\* As NextClk, the clock left as it is.
NextClkStuck(clk) == clk

\* global_clk = global_clk + 1, main.rs:573
NextClk(clk) == clk + 1

\* the recording closure, main.rs:563-575: snapshot, TracedInstruction::new,
\* push if there is a writer, execute, global_clk + 1
TraceBody ==
    /\ pc = "closure"
    /\ LET i == tagged_inst[1]
           regs == machine.registers
           traced == TracedInstruction_new(i)
           r == execute(i, machine, syscall_inputs)
       IN IF traced = None
          THEN /\ pc' = "panic"
               /\ result' = "unsupported_format"
               /\ hist' = [hist EXCEPT !.last = "closure"]
               /\ UNCHANGED <<machine, traces, global_clk>>
          ELSE /\ traces' = IF writer # None
                            THEN Append(traces, TraceItem_new(global_clk, machine.pc,
                                                              regs, traced[1]))
                            ELSE traces
               /\ machine' = r.m
               /\ global_clk' = NextClk(global_clk)
               /\ pc' = IF r.err = "ok" THEN "run" ELSE "failed"
               /\ result' = IF r.err = "ok" THEN result ELSE r.err
               /\ hist' = [hist EXCEPT !.last = "closure", !.executes = @ + 1]
    /\ tagged_inst' = None
    /\ UNCHANGED <<mode, overflow_checks, verifier_max_cycles, program_bytes,
                   transferred_cycles, machine_vec, suspended_machines,
                   spawn_data, specify, report, next_id>>
    /\ UNCHANGED <<profile, syscall_inputs, program, verifier_script_version, matches_step,
                   matches_skip_start, matches_skip_end, stdout, writer>>
    /\ UNCHANGED decoder_cache
    /\ UNCHANGED json_call

\* if let Some(mut writer) = writer { to_writer(&mut writer, &traces) }, then
\* the Ok(()) of main, main.rs:587-589 and :662: the array is written after
\* what the file holds, which is nothing when File::create has made it
TraceWrite ==
    /\ pc = "done"
    /\ mode = "trace_dump"
    /\ pc' = "returned"
    /\ writer' = IF writer # None
                  THEN Some([json |-> Some(IF writer[1].json = None THEN traces
                                           ELSE writer[1].json[1] \o traces)])
                  ELSE writer
    /\ hist' = [hist EXCEPT !.last = "to_writer"]
    /\ UNCHANGED <<mode, overflow_checks, verifier_max_cycles, program_bytes,
                   transferred_cycles, machine, machine_vec, suspended_machines,
                   spawn_data, specify, result, report, next_id>>
    /\ UNCHANGED <<profile, syscall_inputs, program, verifier_script_version, matches_step,
                   matches_skip_start, matches_skip_end, stdout, traces,
                   global_clk, tagged_inst>>
    /\ UNCHANGED decoder_cache
    /\ UNCHANGED json_call

\* The recording closure applied to every value its argument, a
\* TaggedInstruction, can take: the state in which the loop has decoded and
\* charged its first instruction. This is more than the decoder of :551-552
\* returns (it returns no instruction of the fused macro-operations), so it
\* serves only to say what TracedInstruction::new does with each format, arm
\* by arm; what a run of trace_dump records is said over DumpSpec, where every
\* instruction comes through decode.
ClosureInit ==
    /\ mode = "trace_dump"
    /\ overflow_checks = TRUE
    /\ verifier_max_cycles = HighMaxCycles
    /\ verifier_script_version \in 0 .. 2
    /\ program_bytes = SmallProgram
    /\ transferred_cycles = transferred_byte_cycles(program_bytes)
    /\ pc = "closure"
    /\ machine = [core_init(verifier_max_cycles, verifier_script_version)
                     EXCEPT !.running = TRUE, !.cycles = transferred_cycles + InstCost]
    /\ machine_vec = <<>>
    /\ suspended_machines = <<>>
    /\ spawn_data = None
    /\ specify = 0
    /\ result = "none"
    /\ report = <<>>
    /\ next_id = 1
    /\ hist = NoHist
    /\ program = <<>>
    /\ matches_step = 0
    /\ matches_skip_start = None
    /\ matches_skip_end = None
    /\ profile = DefaultProfile
    /\ syscall_inputs = NoSyscallInput
    /\ stdout = <<>>
    /\ writer \in {None, Some([json |-> None])}
    /\ traces = <<>>
    /\ global_clk = 0
    /\ tagged_inst \in {Some(i) : i \in TaggedInstructions}
    /\ decoder_cache = {}
    /\ json_call = NoCall

ClosureNext ==
    \/ TraceDecode
    \/ TraceBody
    \/ Report
    \/ TraceWrite

ClosureSpec == ClosureInit /\ [][ClosureNext]_vars

-----------------------------------------------------------------------------
(* fast mode, full mode and machine_step, main.rs:356-455 *)

\* build_decoder(verifier_script_version.vm_isa(), ..vm_version()), main.rs:359-360
StepDecoderVersion(version) == version

\* As Contains, the end of the range included.
ContainsClosed(range, p) == range[1].start <= p /\ p <= range[1].end

\* Range::contains on the range of Some(range): start <= p < end
Contains(range, p) == range[1].start <= p /\ p < range[1].end

\* let skip_range = if let (Some(s), Some(e)) = (matches_skip_start, matches_skip_end)
\* { Some(Range { start: s, end: e }) } else { None }, main.rs:362-368
skip_range(s, e) ==
    IF s # None /\ e # None THEN Some([start |-> s[1], end |-> e[1]]) ELSE None

\* machine.run() of fast mode (main.rs:441) and of full mode without --step
\* (:403), where the machine is a PProfMachine
Run ==
    /\ pc = "run"
    /\ machine.running
    /\ IF mode = "full" THEN matches_step = 0 ELSE mode = "fast"
    /\ LET isa == vm_isa(verifier_script_version)
           r == IF mode = "full"
                THEN pprof_run(machine, program, isa, syscall_inputs, profile)
                ELSE run(machine, program, isa, syscall_inputs)
       IN /\ machine' = r.m
          /\ pc' = IF r.err = "ok" THEN "run" ELSE "failed"
          /\ result' = IF r.err = "ok" THEN result ELSE r.err
    /\ hist' = [hist EXCEPT !.last = "machine_run"]
    /\ UNCHANGED stepper
    /\ UNCHANGED <<mode, overflow_checks, verifier_max_cycles, program_bytes,
                   transferred_cycles, machine_vec, suspended_machines,
                   spawn_data, specify, report, next_id>>
    /\ UNCHANGED decoder_cache
    /\ UNCHANGED json_call

\* One turn of the loop of machine_step, main.rs:369-383: print the PC unless it
\* is in the skip range (and the machine if --step is given twice), then step
\* the machine inside the PProfMachine (machine.machine.step, :382), which
\* leaves the profile out.  The decoder is the one built at :359; the loop
\* does not look at reset_signal and never resets its instruction cache.
MachineStep ==
    /\ pc = "run"
    /\ mode = "full"
    /\ matches_step > 0
    /\ machine.running
    /\ LET range == skip_range(matches_skip_start, matches_skip_end)
           print_info == ~(range # None /\ Contains(range, machine.pc))
           d == decode_cached(decoder_cache,
                              vm_isa(StepDecoderVersion(verifier_script_version)),
                              Memory(machine, program), machine.pc)
           st == StepDecoded(machine, d, syscall_inputs)
       IN /\ stdout' = IF print_info
                       THEN Append(stdout, [pc |-> machine.pc,
                                            machine |-> matches_step > 1])
                       ELSE stdout
          /\ machine' = st.m
          /\ decoder_cache' = Cached(decoder_cache, machine.pc, d)
          /\ pc' = IF st.err = "ok" THEN "run" ELSE "failed"
          /\ result' = IF st.err = "ok" THEN result ELSE st.err
    /\ hist' = [hist EXCEPT !.last = "machine_step"]
    /\ UNCHANGED <<mode, overflow_checks, verifier_max_cycles, program_bytes,
                   transferred_cycles, machine_vec, suspended_machines,
                   spawn_data, specify, report, next_id>>
    /\ UNCHANGED <<profile, syscall_inputs, program, verifier_script_version, matches_step,
                   matches_skip_start, matches_skip_end, writer, traces,
                   global_clk, tagged_inst>>
    /\ UNCHANGED json_call

\* the addresses --skip-start and --skip-end name in the model
SkipStart == EntryPc + 2
SkipEnd == EntryPc + 6

\* fast, full (with and without --step) and trace_dump on a program.  The
\* syscall inputs are drawn where the program reads them.
ModesInit ==
    /\ mode \in {"fast", "full", "trace_dump"}
    /\ overflow_checks = TRUE
    /\ verifier_max_cycles \in {LowMaxCycles, HighMaxCycles}
    /\ verifier_script_version \in 0 .. 2
    /\ program_bytes = SmallProgram
    /\ transferred_cycles = 0
    /\ pc = "boot"
    /\ machine = core_init(verifier_max_cycles, verifier_script_version)
    /\ machine_vec = <<>>
    /\ suspended_machines = <<>>
    /\ spawn_data = None
    /\ specify = 0
    /\ result = "none"
    /\ report = <<>>
    /\ next_id = 1
    /\ hist = NoHist
    /\ program \in Programs(MaxProgram)
    /\ matches_step \in IF mode = "full" THEN 0 .. 2 ELSE {0}
    /\ matches_skip_start \in IF matches_step > 0 THEN {None, Some(SkipStart)} ELSE {None}
    /\ matches_skip_end \in IF matches_step > 0 THEN {None, Some(SkipEnd)} ELSE {None}
    /\ profile = DefaultProfile
    /\ syscall_inputs \in IF \E k \in 1 .. Len(program) : program[k].kind = "syscall"
                           THEN SyscallInputs ELSE {NoSyscallInput}
    /\ stdout = <<>>
    /\ writer \in IF mode = "trace_dump" THEN {None, Some([json |-> None])} ELSE {None}
    /\ traces = <<>>
    /\ global_clk = 0
    /\ tagged_inst = None
    /\ decoder_cache = {}
    /\ json_call = NoCall

ModesNext ==
    \/ Boot
    \/ Run
    \/ MachineStep
    \/ TraceDecode
    \/ TraceBody
    \/ Report
    \/ TraceWrite

ModesSpec == ModesInit /\ [][ModesNext]_vars

\* The machine as it is when the loop of a mode starts: built, loaded, charged
\* with the transfer cycles and running
Launched ==
    [add_cycles(core_init(verifier_max_cycles, verifier_script_version),
                transferred_byte_cycles(program_bytes)).m EXCEPT !.running = TRUE]

\* What fast mode makes of the program of this run: machine.run() on Launched
FastOutcome == run(Launched, program, vm_isa(verifier_script_version), syscall_inputs)

\* fast mode and full mode, with and without --step, on the programs of
\* AgreeInstructions, with every profile full mode can be given
AgreeInit ==
    /\ mode \in {"fast", "full"}
    /\ overflow_checks = TRUE
    /\ verifier_max_cycles \in {LowMaxCycles, HighMaxCycles}
    /\ verifier_script_version \in 0 .. 2
    /\ program_bytes = SmallProgram
    /\ transferred_cycles = 0
    /\ pc = "boot"
    /\ machine = core_init(verifier_max_cycles, verifier_script_version)
    /\ machine_vec = <<>>
    /\ suspended_machines = <<>>
    /\ spawn_data = None
    /\ specify = 0
    /\ result = "none"
    /\ report = <<>>
    /\ next_id = 1
    /\ hist = NoHist
    /\ program \in ProgramsOf(AgreeInstructions, MaxProgram)
    /\ matches_step \in IF mode = "full" THEN 0 .. 1 ELSE {0}
    /\ matches_skip_start = None
    /\ matches_skip_end = None
    /\ profile \in IF mode = "full" THEN Profiles ELSE {DefaultProfile}
    /\ syscall_inputs = NoSyscallInput
    /\ stdout = <<>>
    /\ writer = None
    /\ traces = <<>>
    /\ global_clk = 0
    /\ tagged_inst = None
    /\ decoder_cache = {}
    /\ json_call = NoCall

AgreeNext ==
    \/ Boot
    \/ Run
    \/ MachineStep
    \/ Report

AgreeSpec == AgreeInit /\ [][AgreeNext]_vars

\* trace_dump with a trace file on the programs of TraceInstructions
DumpInit ==
    /\ mode = "trace_dump"
    /\ overflow_checks = TRUE
    /\ verifier_max_cycles \in {LowMaxCycles, HighMaxCycles}
    /\ verifier_script_version \in 0 .. 2
    /\ program_bytes = SmallProgram
    /\ transferred_cycles = 0
    /\ pc = "boot"
    /\ machine = core_init(verifier_max_cycles, verifier_script_version)
    /\ machine_vec = <<>>
    /\ suspended_machines = <<>>
    /\ spawn_data = None
    /\ specify = 0
    /\ result = "none"
    /\ report = <<>>
    /\ next_id = 1
    /\ hist = NoHist
    /\ program \in ProgramsOf(TraceInstructions, MaxProgram)
    /\ matches_step = 0
    /\ matches_skip_start = None
    /\ matches_skip_end = None
    /\ profile = DefaultProfile
    /\ syscall_inputs = NoSyscallInput
    /\ stdout = <<>>
    /\ writer = Some([json |-> None])
    /\ traces = <<>>
    /\ global_clk = 0
    /\ tagged_inst = None
    /\ decoder_cache = {}
    /\ json_call = NoCall

DumpNext ==
    \/ Boot
    \/ TraceDecode
    \/ TraceBody
    \/ Report
    \/ TraceWrite

DumpSpec == DumpInit /\ [][DumpNext]_vars

-----------------------------------------------------------------------------
(* machine_sget as a specification of its own *)

\* machine_sget on its own, main.rs:464-471: a connection of gdb mode whose
\* budget lets the child of a child execute instructions
SgetInit ==
    /\ mode = "gdb"
    /\ overflow_checks \in BOOLEAN
    /\ verifier_max_cycles \in {LowMaxCycles, DeepMaxCycles}
    /\ verifier_script_version = 0
    /\ program_bytes = SmallProgram
    /\ transferred_cycles = 0
    /\ pc = "boot"
    /\ machine = core_init(verifier_max_cycles, verifier_script_version)
    /\ machine_vec = <<>>
    /\ suspended_machines = <<>>
    /\ spawn_data = None
    /\ specify \in 0 .. MaxSpecify
    /\ result = "none"
    /\ report = <<>>
    /\ next_id = 1
    /\ hist = [NoHist EXCEPT !.budget = specify,
                              !.prepared = Len(suspended_machines)]
    /\ program = <<>>
    /\ matches_step = 0
    /\ matches_skip_start = None
    /\ matches_skip_end = None
    /\ profile = DefaultProfile
    /\ syscall_inputs = NoSyscallInput
    /\ stdout = <<>>
    /\ writer = None
    /\ traces = <<>>
    /\ global_clk = 0
    /\ tagged_inst = None
    /\ decoder_cache = {}
    /\ json_call = NoCall

SgetNext ==
    \/ Boot
    \/ SgetOuter
    \/ SgetInnerExit
    \/ SgetDecodeErr
    \/ SgetStep
    \/ SgetExec
    \/ SgetSpawn
    \/ SgetTail

SgetSpec == SgetInit /\ [][SgetNext]_vars

\* machine_sget runs on one thread and nothing suspends it: a step that can be
\* taken is taken
SgetLive == SgetInit /\ [][SgetNext]_vars /\ WF_vars(SgetNext)

-----------------------------------------------------------------------------
(* The listener of the gdb modes, main.rs:457-522 *)

\* The client lets the machine run and the machine reaches a 2101 ecall whose
\* child runs out of cycles: the spawn syscall, built with machine_context by
\* generate_syscalls (main.rs:340-341), leaves the child suspended in the
\* context and the step fails; the handler reports the failure to the client
SessionSpawn ==
    /\ pc = "session"
    /\ machine.running
    /\ \E inst \in Instructions :
          /\ inst.kind = "ecall" /\ inst.a7 = SpawnEcall /\ inst.fails
          /\ LET st == SpawnStep(machine, inst, TRUE)
             IN /\ st.suspended
                /\ machine' = st.m
                /\ suspended_machines' =
                      Append(suspended_machines, SpawnSuspends(st.m, next_id))
                /\ next_id' = next_id + 1
    /\ hist' = [hist EXCEPT !.last = "session_spawn"]
    /\ UNCHANGED stepper
    /\ UNCHANGED <<mode, overflow_checks, verifier_max_cycles, program_bytes,
                   transferred_cycles, pc, machine_vec, spawn_data, specify,
                   result, report, decoder_cache>>
    /\ UNCHANGED json_call

\* for res in listener.incoming(): the next connection is accepted when the
\* one before has ended.  machine_init() builds its machine, which is loaded
\* and charged by Boot; machine_context, created once at main.rs:323, is the
\* one every connection is given (machine_context.clone(), :341 and :471)
Accept ==
    /\ pc = "done"
    /\ hist.connection < MaxConnections
    /\ pc' = "boot"
    /\ machine' = core_init(verifier_max_cycles, verifier_script_version)
    /\ machine_vec' = <<>>
    /\ spawn_data' = None
    /\ specify' = hist.budget
    /\ result' = "none"
    /\ transferred_cycles' = 0
    /\ decoder_cache' = {}
    /\ hist' = [NoHist EXCEPT !.budget = hist.budget,
                               !.prepared = Len(suspended_machines),
                               !.connection = hist.connection + 1,
                               !.seen = hist.seen]
    /\ UNCHANGED stepper
    /\ UNCHANGED <<mode, overflow_checks, verifier_max_cycles, program_bytes,
                   suspended_machines, report, next_id>>
    /\ UNCHANGED json_call

\* the first connection of a listener of gdb mode: the context is the
\* MachineContext::default() of main.rs:323
ConnInit ==
    /\ mode = "gdb"
    /\ overflow_checks \in BOOLEAN
    /\ verifier_max_cycles \in {LowMaxCycles, DeepMaxCycles}
    /\ verifier_script_version = 0
    /\ program_bytes = SmallProgram
    /\ transferred_cycles = 0
    /\ pc = "boot"
    /\ machine = core_init(verifier_max_cycles, verifier_script_version)
    /\ machine_vec = <<>>
    /\ suspended_machines = <<>>
    /\ spawn_data = None
    /\ specify \in 0 .. MaxSpecify
    /\ result = "none"
    /\ report = <<>>
    /\ next_id = 1
    /\ hist = [NoHist EXCEPT !.budget = specify, !.seen = suspended_machines]
    /\ program = <<>>
    /\ matches_step = 0
    /\ matches_skip_start = None
    /\ matches_skip_end = None
    /\ profile = DefaultProfile
    /\ syscall_inputs = NoSyscallInput
    /\ stdout = <<>>
    /\ writer = None
    /\ traces = <<>>
    /\ global_clk = 0
    /\ tagged_inst = None
    /\ decoder_cache = {}
    /\ json_call = NoCall

ConnNext ==
    \/ Boot
    \/ SgetOuter
    \/ SgetInnerExit
    \/ SgetDecodeErr
    \/ SgetStep
    \/ SgetExec
    \/ SgetSpawn
    \/ SgetTail
    \/ SessionStep
    \/ SessionSpawn
    \/ GdbSession
    \/ Accept

ConnSpec == ConnInit /\ [][ConnNext]_vars

-----------------------------------------------------------------------------
(* The same command line run twice *)

\* What a run leaves behind: how the process ended, the exit code and the total
\* cycles of the machine, the error if any, what was printed, and the trace
\* array with the file it was written to
Outcome ==
    [status |-> pc, exit_code |-> machine.exit_code, cycles |-> machine.cycles,
     result |-> result, report |-> report, stdout |-> stdout, traces |-> traces,
     writer |-> writer]

\* main has returned, called std::process::exit or panicked
Ended ==
    \/ pc \in {"exit", "returned", "error", "panic"}
    \/ pc = "done" /\ mode # "trace_dump"

\* The command line is run a second time with the same program and arguments:
\* a new process, whose main builds everything again (machine_init, an empty
\* traces vector).  What the first process left on the disk, the trace file,
\* is still there; the clock and the random source of the host hand the
\* syscalls of the second process what they then hold.
Rerun ==
    /\ Ended
    /\ hist.first = None
    /\ hist' = [NoHist EXCEPT !.first = Some(Outcome), !.inputs = syscall_inputs]
    /\ syscall_inputs' \in IF \E k \in 1 .. Len(program) : program[k].kind = "syscall"
                            THEN SyscallInputs ELSE {syscall_inputs}
    /\ pc' = "boot"
    /\ machine' = core_init(verifier_max_cycles, verifier_script_version)
    /\ transferred_cycles' = 0
    /\ result' = "none"
    /\ report' = <<>>
    /\ stdout' = <<>>
    /\ traces' = <<>>
    /\ global_clk' = 0
    /\ tagged_inst' = None
    /\ UNCHANGED <<mode, overflow_checks, verifier_max_cycles, program_bytes,
                   machine_vec, suspended_machines, spawn_data, specify, next_id>>
    /\ UNCHANGED <<profile, program, verifier_script_version, matches_step,
                   matches_skip_start, matches_skip_end, writer>>
    /\ decoder_cache' = {}
    /\ UNCHANGED json_call

TwiceNext ==
    \/ Boot
    \/ Run
    \/ MachineStep
    \/ TraceDecode
    \/ TraceBody
    \/ Report
    \/ TraceWrite
    \/ Rerun

TwiceSpec == ModesInit /\ [][TwiceNext]_vars

-----------------------------------------------------------------------------
(* ckb-debugger-api: run, internal_run_json and run_json,
   src/ckb-debugger-api/src/lib.rs:30-99 *)

\* Result<T, E>
Ok(x) == <<"Ok", x>>
Err(e) == <<"Err", e>>

\* A string is the sequence of its characters.  The characters outside ASCII
\* are written by name; UTF-8 encodes them in more than one byte.
Utf8 == [e_acute |-> <<"C3", "A9">>, euro |-> <<"E2", "82", "AC">>]

\* str::as_bytes: the UTF-8 bytes of a string, an ASCII character being the
\* byte that encodes it
RECURSIVE as_bytes(_)
as_bytes(s) ==
    IF s = <<>> THEN <<>>
    ELSE (IF Head(s) \in DOMAIN Utf8 THEN Utf8[Head(s)] ELSE <<Head(s)>>)
         \o as_bytes(Tail(s))

\* str::len, lib.rs:84: the length in bytes
len(s) == Len(as_bytes(s))

\* str::starts_with
starts_with(s, prefix) ==
    Len(s) >= Len(prefix) /\ SubSeq(s, 1, Len(prefix)) = prefix

DecDigits == <<"0", "1", "2", "3", "4", "5", "6", "7", "8", "9">>
HexLower == DecDigits \o <<"a", "b", "c", "d", "e", "f">>
HexUpper == DecDigits \o <<"A", "B", "C", "D", "E", "F">>

\* the index of c in a sequence of characters, 0 if it is not there
IndexOf(seq, c) ==
    IF \E i \in 1 .. Len(seq) : seq[i] = c
    THEN CHOOSE i \in 1 .. Len(seq) : seq[i] = c
    ELSE 0

\* the value of a hex digit; -1 stands for what the table of the decoder holds
\* for a byte that is no hex digit
unhex(byte) ==
    IF IndexOf(HexLower, byte) > 0 THEN IndexOf(HexLower, byte) - 1
    ELSE IF IndexOf(HexUpper, byte) > 0 THEN IndexOf(HexUpper, byte) - 1
    ELSE -1

\* hex_decode_fallback(src, dst), lib.rs:88: every byte of dst from two bytes of
\* src, without a check that they are hex digits; -1 stands for a byte made
\* from a byte that is no hex digit
hex_decode_fallback(src, n) ==
    [i \in 1 .. n |->
        LET hi == unhex(src[2 * i - 1])
            lo == unhex(src[2 * i])
        IN IF hi < 0 \/ lo < 0 THEN -1 ELSE 16 * hi + lo]

\* The loop of u64::from_str over the digits, from the left: a character that
\* is no digit ends it with InvalidDigit, a value that does not fit the word
\* with PosOverflow, whichever comes first
RECURSIVE ParseDigits(_, _)
ParseDigits(acc, ds) ==
    IF ds = <<>> THEN Ok(acc)
    ELSE IF IndexOf(DecDigits, Head(ds)) = 0 THEN Err("InvalidDigit")
    ELSE IF 10 * acc + (IndexOf(DecDigits, Head(ds)) - 1) > WordMax
    THEN Err("PosOverflow")
    ELSE ParseDigits(10 * acc + (IndexOf(DecDigits, Head(ds)) - 1), Tail(ds))

\* max_cycle.parse::<Cycle>(), lib.rs:90: decimal digits after an optional "+",
\* at least one digit, and a value that fits the word
parse(s) ==
    LET digits == IF s # <<>> /\ Head(s) = "+" THEN Tail(s) ELSE s
    IN IF s = <<>> THEN Err("Empty")
       ELSE IF digits = <<>> THEN Err("InvalidDigit")
       ELSE ParseDigits(0, digits)

\* from_json_str(mock_tx), lib.rs:81: a mock transaction, or the error of serde
from_json_str(text) ==
    IF ~text.parses THEN Err("expected value") ELSE Ok(text)

\* from_plain_str(script_group_type), lib.rs:83: ScriptGroupType of "lock" or
\* "type"
from_plain_str(s) ==
    IF s \in {"lock", "type"} THEN Ok(s) ELSE Err("unknown variant")

\* run, lib.rs:30-51: build the resource from the transaction (the error of
\* Resource::from_both is returned as it is, :37), resolve the transaction
\* (:41-42), then verify the script group of the given type and hash within
\* max_cycle (:48-50).  What the three calls make of a transaction is the
\* work of ckb-mock-tx-types, ckb-types and ckb-script.
run_script(mock_tx, script_group_type, script_hash, max_cycle) ==
    IF ~mock_tx.loads THEN Err("Cell is missing!")
    ELSE IF ~mock_tx.resolves THEN Err("Resolve transaction error")
    ELSE IF script_group_type # mock_tx.group \/ script_hash # mock_tx.script
    THEN Err("Verify script error")
    ELSE IF mock_tx.needs > max_cycle THEN Err("Verify script error")
    ELSE IF ~mock_tx.passes THEN Err("Verify script error")
    ELSE Ok(mock_tx.needs)

\* internal_run_json up to the call of run, lib.rs:81-90: the arguments of run,
\* or the error it returns with
validate(mock_tx, script_group_type, hex_script_hash, max_cycle) ==
    LET repr_mock_tx == from_json_str(mock_tx)
        group == from_plain_str(script_group_type)
        cycles == parse(max_cycle)
    IN IF repr_mock_tx[1] = "Err" THEN repr_mock_tx
       ELSE IF group[1] = "Err" THEN group
       ELSE IF len(hex_script_hash) # HashLen
               \/ ~starts_with(hex_script_hash, <<"0", "x">>)
       THEN Err("Invalid script hash format!")
       ELSE IF cycles[1] = "Err" THEN Err("Invalid max cycle!")
       ELSE Ok([mock_tx |-> repr_mock_tx[2],
                script_group_type |-> group[2],
                script_hash |-> hex_decode_fallback(
                                    SubSeq(as_bytes(hex_script_hash), 3, HashLen),
                                    HashBytes),
                max_cycle |-> cycles[2]])

\* impl From<Result<Cycle, String>> for JsonResult, lib.rs:59-72
JsonResult_from(r) ==
    IF r[1] = "Ok" THEN [cycle |-> Some(r[2]), error |-> None]
    ELSE [cycle |-> None, error |-> Some(r[2])]

\* to_json_string(&json_result), lib.rs:98: the members of the object, null
\* for None
to_json_string(j) ==
    [cycle |-> IF j.cycle = None THEN <<"null">> ELSE <<"number", j.cycle[1]>>,
     error |-> IF j.error = None THEN <<"null">> ELSE <<"string", j.error[1]>>]

\* the first part of internal_run_json, lib.rs:81-90
JsonValidate ==
    /\ json_call.pc = "call"
    /\ LET v == validate(json_call.mock_tx, json_call.script_group_type,
                         json_call.hex_script_hash, json_call.max_cycle)
       IN json_call' = IF v[1] = "Err"
                       THEN [json_call EXCEPT !.pc = "into", !.res = Some(v)]
                       ELSE [json_call EXCEPT !.pc = "run", !.args = Some(v[2])]
    /\ UNCHANGED debugger

\* run(&mock_tx, &script_group_type, &script_hash, max_cycle, ..), lib.rs:91
JsonRun ==
    /\ json_call.pc = "run"
    /\ LET a == json_call.args[1]
       IN json_call' = [json_call EXCEPT
                           !.pc = "into",
                           !.ran = TRUE,
                           !.res = Some(run_script(a.mock_tx, a.script_group_type,
                                                   a.script_hash, a.max_cycle))]
    /\ UNCHANGED debugger

\* run_json, lib.rs:94-99: the Result into a JsonResult, serialised
JsonInto ==
    /\ json_call.pc = "into"
    /\ json_call' = [json_call EXCEPT
                        !.pc = "returned",
                        !.json = Some(to_json_string(JsonResult_from(json_call.res[1])))]
    /\ UNCHANGED debugger

\* a run of n copies of a character
Repeat(c, n) == [i \in 1 .. n |-> c]

\* The script hashes given to run_json: a prefix, a run of one character and
\* at most one character outside ASCII
HashStrings ==
    {prefix \o Repeat(fill, n) \o tail :
        prefix \in {<<"0", "x">>, <<"0", "X">>},
        fill \in {"a", "g"},
        n \in HashLen - 5 .. HashLen - 2,
        tail \in {<<>>, <<"e_acute">>, <<"euro">>}}

\* every string of at most n characters of the alphabet
RECURSIVE Strings(_, _)
Strings(alphabet, n) ==
    IF n = 0 THEN {<<>>}
    ELSE Strings(alphabet, n - 1) \cup
         {Append(s, c) : s \in {t \in Strings(alphabet, n - 1) : Len(t) = n - 1},
                         c \in alphabet}

\* The mock transactions given to run_json: text that does not parse, or a
\* transaction with one lock script whose hash is aa..aa
MockTxs ==
    {tx \in [parses : BOOLEAN, loads : BOOLEAN, resolves : BOOLEAN,
             group : {"lock"},
             script : {hex_decode_fallback(Repeat("a", 2 * HashBytes), HashBytes)},
             needs : {CheapScript, CostlyScript}, passes : BOOLEAN] :
        /\ ~tx.parses => ~tx.loads
        /\ ~tx.loads => ~tx.resolves
        /\ ~tx.resolves => (tx.needs = CheapScript /\ ~tx.passes)}

\* run_json applied to the arguments a caller can give it
JsonInit ==
    /\ mode = "probe"
    /\ overflow_checks = TRUE
    /\ verifier_max_cycles = HighMaxCycles
    /\ program_bytes = SmallProgram
    /\ transferred_cycles = 0
    /\ pc = "none"
    /\ machine = machine_init(0, verifier_max_cycles)
    /\ machine_vec = <<>>
    /\ suspended_machines = <<>>
    /\ spawn_data = None
    /\ specify = 0
    /\ result = "none"
    /\ report = <<>>
    /\ next_id = 1
    /\ hist = NoHist
    /\ program = <<>>
    /\ verifier_script_version = 0
    /\ matches_step = 0
    /\ matches_skip_start = None
    /\ matches_skip_end = None
    /\ profile = DefaultProfile
    /\ syscall_inputs = NoSyscallInput
    /\ stdout = <<>>
    /\ writer = None
    /\ traces = <<>>
    /\ global_clk = 0
    /\ tagged_inst = None
    /\ decoder_cache = {}
    /\ \E tx \in MockTxs, group \in {"lock", "type", "Lock"},
          hash \in HashStrings, cycles \in Strings({"0", "7", "+", "a"}, MaxCycleLen) :
          json_call = [pc |-> "call", mock_tx |-> tx, script_group_type |-> group,
                       hex_script_hash |-> hash, max_cycle |-> cycles,
                       args |-> None, res |-> None, ran |-> FALSE, json |-> None]

JsonNext ==
    \/ JsonValidate
    \/ JsonRun
    \/ JsonInto

JsonSpec == JsonInit /\ [][JsonNext]_vars

-----------------------------------------------------------------------------
(* Observers used by the properties *)

\* Positions of the log where a parent was suspended and has not been resumed since
Outstanding(log) ==
    {i \in 1 .. Len(log) :
        /\ log[i].ev = "suspend"
        /\ \A j \in (i + 1) .. Len(log) :
              ~(log[j].ev = "resume" /\ log[j].id = log[i].id)}

Max(S) == CHOOSE x \in S : \A y \in S : y <= x

\* hist.log without its last event
Earlier(log) == SubSeq(log, 1, Len(log) - 1)

-----------------------------------------------------------------------------
(* C1: in machine_sget the parent resumed when the active machine stops is the
   most recently suspended parent that has not been resumed yet. *)
C1_LifoResume ==
    hist.last = "unwind" =>
        /\ Outstanding(Earlier(hist.log)) # {}
        /\ machine.id = hist.log[Max(Outstanding(Earlier(hist.log)))].id

\* a parent is resumed while an older parent is still suspended
C1_Witness ==
    /\ hist.last = "unwind"
    /\ Len(machine_vec) >= 1
    /\ machine.id # machine_vec[1].id

(* C2: when a child stops with exit code e after consuming c cycles, the
   update-caller write applied to the popped parent carries e and c. *)
C2_UpdateCarriesChildResult ==
    hist.last = "unwind" =>
        /\ machine.updates # <<>>
        /\ machine.updates[Len(machine.updates)].exit_code = hist.callee.exit_code
        /\ machine.updates[Len(machine.updates)].cycles = hist.callee.cycles

(* C3 as stated: with D prepared children and a budget K <= D, machine_sget
   returns after exactly K pops with K suspended parents below the machine
   it returns. *)
C3_ExactlyKPopsDepthK ==
    (hist.last = "return" /\ hist.budget <= hist.prepared) =>
        /\ hist.pops = hist.budget
        /\ Len(machine_vec) = hist.budget

(* C3 amended: machine_sget never pops more than K times; when it returns, the
   pops and the 2043 steps together are K, and the machine returned has as many
   suspended parents below it as Spawn entries were popped minus the children
   that finished and were unwound. *)
C3_PopsAndDepth ==
    /\ hist.pops <= hist.budget
    /\ hist.last = "return" =>
          /\ hist.pops + hist.resets = hist.budget
          /\ Len(machine_vec) = hist.spawn_pops - hist.unwinds

\* a return with K <= D and fewer than K parents below the machine returned,
\* a child having finished and been unwound
C3_Witness ==
    /\ hist.last = "return"
    /\ hist.budget <= hist.prepared
    /\ hist.budget >= 1
    /\ hist.unwinds >= 1
    /\ Len(machine_vec) < hist.budget

(* C4: when the budget exceeds the handoffs that can be performed, machine_sget
   returns a machine: it neither returns an error nor aborts.  Stated for the
   claim's second case, the active machine stopping with budget left and no
   suspended parent to resume. *)
C4_NoAbortWhenBudgetLeft ==
    ~(pc = "panic" /\ hist.last = "tail_panic" /\ machine_vec = <<>>
        /\ result = "unwrap_none" /\ specify > 0)

(* C5 as stated: a machine that executes the spawn-handoff ecall while the
   suspended-machine stack is empty makes the session abort, so no handoff
   completes from an empty stack. *)
C5_AbortWhenEmptyAtEcall ==
    ~(hist.last = "spawn" /\ hist.found = 0)

(* C5 amended: the stack is popped after the step that executes the ecall, and
   that step can itself leave a suspended child in the context.  If the stack
   is empty when it is popped, the session aborts: the active machine does not
   change, nothing is pushed, no budget is consumed, no machine is returned,
   and nothing runs after the abort. *)
C5_AbortOnEmptyPop ==
    [][/\ (/\ pc = "sget_inner"
           /\ hist'.last \in {"spawn", "spawn_panic"}
           /\ suspended_machines = <<>>
           /\ next_id' = next_id)
          => /\ pc' = "panic"
             /\ machine'.id = machine.id
             /\ machine_vec' = machine_vec
             /\ specify' = specify
             /\ result' = "unwrap_none" \/ result' = "overflow"
       /\ pc # "panic"]_vars

\* the abort on an empty suspended-machine stack
C5_Witness ==
    /\ pc = "panic"
    /\ hist.last = "spawn_panic"
    /\ result = "unwrap_none"
    /\ suspended_machines = <<>>

(* C6 as stated: the remaining budget is the initial budget minus the number of
   2101 handoffs performed; the 2043 ecall consumes none. *)
C6_OnlyHandoffsConsume ==
    specify = hist.budget - hist.pops

(* C6 amended: the remaining budget is the initial budget minus the 2101
   handoffs performed and the 2043 steps executed; unwinding into a parent
   consumes none; the inner loop only runs with budget left and machine_sget
   returns a machine only with the budget at 0. *)
C6_BudgetAccounting ==
    /\ specify = hist.budget - hist.pops - hist.resets
    /\ specify >= 0
    /\ pc = "sget_inner" => specify > 0
    /\ hist.last = "return" => specify = 0

\* a return after a handoff, an unwinding and a 2043 step
C6_Witness ==
    /\ hist.last = "return"
    /\ hist.pops >= 1
    /\ hist.resets >= 1
    /\ hist.unwinds >= 1

(* C7: the 2043 ecall in machine_sget keeps the same machine active and running,
   leaves the internal stack and the suspended-machine stack as they are, and
   changes the cycle counter by the cost of that one step only; the check that
   follows the break does not unwind. *)
C7_ExecFrame ==
    [][/\ (pc = "sget_inner" /\ hist'.resets = hist.resets + 1)
          => /\ machine'.id = machine.id
             /\ machine'.running
             /\ machine'.cycles = machine.cycles + EcallCost
             /\ machine'.max_cycles = machine.max_cycles
             /\ machine_vec' = machine_vec
             /\ suspended_machines' = suspended_machines
             /\ spawn_data' = spawn_data
       /\ (pc = "sget_tail" /\ hist.last = "exec")
          => UNCHANGED <<machine, machine_vec, suspended_machines, spawn_data>>]_vars

\* a 2043 step executed by a child, with a parent on the internal stack
C7_Witness ==
    /\ hist.last = "exec"
    /\ machine_vec # <<>>
    /\ machine.id # machine_vec[Len(machine_vec)].id

(* C8: at a spawn handoff of a parent with counter c and budget M, the parent's
   counter becomes c + 500 and the child's budget M - 500 - c, which never
   exceeds the parent's remaining M - c: no unsigned subtraction wraps. *)
C8_HandoffBudget ==
    /\ ~(pc = "panic" /\ result = "overflow" /\ hist.last = "spawn_panic")
    /\ (hist.last = "spawn" /\ machine.id # hist.caller.id) =>
          /\ machine_vec[Len(machine_vec)].cycles = hist.caller.cycles + Margin
          /\ machine.max_cycles = hist.caller.max_cycles - Margin - hist.caller.cycles
          /\ machine.max_cycles <= hist.caller.max_cycles - hist.caller.cycles

(* C9: every machine of the session, active or suspended, has its cycle counter
   at or below its max-cycle budget. *)
C9_CyclesWithinBudget ==
    /\ machine.cycles <= machine.max_cycles
    /\ \A i \in 1 .. Len(machine_vec) :
          machine_vec[i].cycles <= machine_vec[i].max_cycles
    /\ \A i \in 1 .. Len(suspended_machines) :
          suspended_machines[i].machine.cycles <= suspended_machines[i].machine.max_cycles

(* C10: every cycle breakdown printed has transfer + running = total, and the
   subtraction total - transfer never underflows. *)
C10_BreakdownAddsUp ==
    /\ ~(pc = "panic" /\ hist.last = "report")
    /\ Printed # None => Printed[1].transfer + Printed[1].running = Printed[1].total

(* C11: in machine_sget a step that fails at an ordinary instruction (it does
   not decode, it faults in execute, or its cost exceeds the cycle budget)
   makes machine_sget return that error at once: the active machine stays the
   same, no parent is popped, the suspended-machine stack is not touched, no
   update-caller write is made, no budget is consumed, and nothing runs on any
   machine after the error. *)
C11_OrdinaryFailureReturns ==
    [][/\ (/\ pc = "sget_inner"
           /\ hist'.last \in {"step", "decode_err"}
           /\ result' # result)
          => /\ pc' = "error"
             /\ result' \in {"InvalidInstruction", "CyclesExceeded",
                              "CyclesOverflow", "Fault"}
             /\ machine'.id = machine.id
             /\ machine'.updates = machine.updates
             /\ machine_vec' = machine_vec
             /\ suspended_machines' = suspended_machines
             /\ spawn_data' = spawn_data
             /\ specify' = specify
       /\ pc # "error"]_vars

\* a child runs out of cycles at an ordinary instruction, its parent suspended
C11_Witness ==
    /\ pc = "error"
    /\ hist.last = "step"
    /\ result = "CyclesExceeded"
    /\ machine_vec # <<>>

(* C12: in every stepping loop the first step that fails is terminal: its error
   becomes the result of the run and nothing is decoded or executed on any
   machine afterwards; no failure returned by a step inside machine_sget, the
   step of the spawn-handoff ecall included, is discarded.  The handoff is
   taken where its cycle arithmetic does not wrap. *)
C12_FirstFailureTerminal ==
    [][/\ (pc = "run" /\ hist'.last = "run" /\ result' # result) => pc' = "failed"
       /\ (/\ pc = "sget_inner" /\ hist'.last = "spawn"
           /\ machine.cycles + Margin <= machine.max_cycles
           /\ hist'.dropped # "ok")
            => /\ pc' = "error"
               /\ result' = hist'.dropped
               /\ machine'.id = machine.id
               /\ machine_vec' = machine_vec
               /\ suspended_machines' = suspended_machines
       /\ pc \in {"failed", "error"}
            => UNCHANGED <<machine, machine_vec, suspended_machines>>]_vars

(* C13: in every mode that runs the program to completion, a program exit code
   e # 0 is printed as it is and the process ends with status 254; exit code 0
   ends the process with status 0. *)
C13_NonZeroExitGives254 ==
    (hist.last = "report" /\ result = "exited") =>
        /\ Printed # None
        /\ Printed[1].run_result = machine.exit_code
        /\ machine.exit_code # 0 => pc = "exit"
        /\ machine.exit_code = 0 => pc = "done"

(* C14: every Traced Instruction holds its operands as the table of formats
   says: immediate -> (rd, rs1, immediate, imm_b false, imm_c true); register
   -> (rd, rs1, rs2, false, false); store -> (rs2, rs1, immediate, false,
   false); upper-immediate -> (rd, immediate, 0, true, false). *)
C14_OperandTable ==
    \A k \in 1 .. Len(traces) :
        LET t == traces[k].instruction
            i == t.instruction
        IN /\ i.format \in {"Itype", "Rtype", "Stype", "Utype"}
           /\ i.format = "Itype" =>
                 /\ t.op_a = i.rd /\ t.op_b = i.rs1 /\ t.op_c = i.imm
                 /\ t.imm_b = FALSE /\ t.imm_c = TRUE
           /\ i.format = "Rtype" =>
                 /\ t.op_a = i.rd /\ t.op_b = i.rs1 /\ t.op_c = i.rs2
                 /\ t.imm_b = FALSE /\ t.imm_c = FALSE
           /\ i.format = "Stype" =>
                 /\ t.op_a = i.rs2 /\ t.op_b = i.rs1 /\ t.op_c = i.imm
                 /\ t.imm_b = FALSE /\ t.imm_c = FALSE
           /\ i.format = "Utype" =>
                 /\ t.op_a = i.rd /\ t.op_b = i.imm /\ t.op_c = 0
                 /\ t.imm_b = TRUE /\ t.imm_c = FALSE

\* a store recorded whose stored register, base register and offset all differ
C14_Witness ==
    /\ traces # <<>>
    /\ LET i == traces[1].instruction.instruction
       IN /\ i.format = "Stype"
          /\ i.rs2 = MaxReg /\ i.rs1 = 1 /\ i.imm = MaxImm
          /\ traces[1].instruction.op_a = MaxReg

\* the opcode names of the table, and a name without its version suffix
OpcodeNames == UNION {FormatOpcodes[f] : f \in Formats}
VersionSuffixes == {"VERSION0", "VERSION1"}
BaseName(name) ==
    IF Len(name) >= 3 /\ name[Len(name)] \in VersionSuffixes /\ name[Len(name) - 1] = "_"
    THEN SubSeq(name, 1, Len(name) - 2)
    ELSE name

\* the opcode names the decoder of trace_dump can hand to the closure: those of
\* the instruction sets of version 0, as a decoder of version 0 names them
TraceableNames ==
    {n \in OpcodeNames : /\ IsaOf(n) \in vm_isa(TraceDecoderVersion(0))
                         /\ n[Len(n)] # "VERSION1"}

(* C15: the opcode recorded in a Traced Instruction of trace_dump is the opcode
   name of the decoded instruction with its version suffix removed and nothing
   else removed: an opcode name of the same base, of whatever version, gives
   the same recorded opcode, and no opcode name of a different base that the
   decoder of trace_dump can hand over gives the same recorded opcode. *)
C15_OnlyVersionSuffixRemoved ==
    \A k \in 1 .. Len(traces) :
        LET t == traces[k].instruction
            name == t.instruction.opcode
        IN /\ t.opcode = BaseName(name)
           /\ \A other \in OpcodeNames :
                 BaseName(other) = BaseName(name) => RecordedOpcode(other) = t.opcode
           /\ \A other \in TraceableNames :
                 RecordedOpcode(other) = t.opcode => BaseName(other) = BaseName(name)

(* C16: when the recording closure of trace_dump is handed an instruction of a
   four- or five-operand format the run aborts there: no Traced Instruction is
   pushed, the instruction is not executed (the machine and global_clk stay as
   they are), the trace file is left without a serialized array, and nothing
   runs after the abort. *)
C16_FusedFormatAborts ==
    [][/\ (pc = "closure" /\ tagged_inst[1].format \in {"R4type", "R5type"})
          => /\ pc' = "panic"
             /\ traces' = traces
             /\ machine' = machine
             /\ global_clk' = global_clk
             /\ writer' = writer
             /\ writer # None => writer[1].json = None
       /\ pc # "panic"]_vars

\* the abort, with a trace file configured
C16_Witness ==
    /\ pc = "panic"
    /\ result = "unsupported_format"
    /\ writer # None
    /\ writer[1].json = None

(* C17: in trace_dump with a trace file the array holds exactly one record for
   each instruction execute was called on, appended in execution order and
   never removed or reordered; the record at index i has global_clk = i and
   holds the pc and the registers as they were before that instruction
   executed; a turn of the loop that fails in decode or whose cost the cycle
   budget rejects adds no record; the array written to the file is this one. *)
C17_OneRecordPerExecute ==
    [][/\ (writer # None /\ hist'.executes = hist.executes + 1)
          => /\ Len(traces') = Len(traces) + 1
             /\ SubSeq(traces', 1, Len(traces)) = traces
             /\ traces'[Len(traces')].global_clk = Len(traces)
             /\ traces'[Len(traces')].pc = machine.pc
             /\ traces'[Len(traces')].registers = machine.registers
             /\ traces'[Len(traces')].instruction.instruction = tagged_inst[1]
       /\ hist'.executes = hist.executes => traces' = traces
       /\ writer' # None
          => /\ Len(traces') = hist'.executes
             /\ \A k \in 1 .. Len(traces') : traces'[k].global_clk = k - 1
       /\ (writer # None /\ hist'.last = "to_writer")
          => writer'[1].json = Some(traces)]_vars

\* two instructions recorded, the third rejected by the cycle budget, the
\* array written to the file
C17_Witness ==
    /\ pc = "returned"
    /\ writer # None
    /\ writer[1].json = Some(traces)
    /\ Len(traces) = 2
    /\ traces[2].global_clk = 1
    /\ traces[2].registers # traces[1].registers
    /\ result = "CyclesExceeded"

(* C18: in step mode the PC of the instruction about to be stepped is printed
   if and only if it is outside the skip range; the skip range is the half-open
   interval from --skip-start to --skip-end, end excluded, and exists only when
   both are given: with one of them or none every PC is printed. *)
C18_PrintsOutsideSkipRange ==
    [][(pc = "run" /\ hist'.last = "machine_step")
          => LET p == machine.pc
                 skipped == /\ matches_skip_start # None
                            /\ matches_skip_end # None
                            /\ matches_skip_start[1] <= p
                            /\ p < matches_skip_end[1]
             IN /\ ~skipped => /\ Len(stdout') = Len(stdout) + 1
                                /\ SubSeq(stdout', 1, Len(stdout)) = stdout
                                /\ stdout'[Len(stdout')].pc = p
                /\ skipped => stdout' = stdout]_vars

\* both bounds given: the instruction inside the range is stepped unprinted,
\* the one at the end of the range is printed
C18_Witness ==
    /\ mode = "full"
    /\ matches_skip_start # None
    /\ matches_skip_end # None
    /\ hist.last = "machine_step"
    /\ Len(stdout) = 2
    /\ stdout[1].pc = EntryPc
    /\ stdout[2].pc = SkipEnd

(* C19: for the same program, script version and max-cycle budget, fast mode,
   full mode and full mode with --step end with the same outcome: the same
   exit code or the same error, and the same total cycles.  A run that ends
   before its loop has started does so in fast mode too. *)
C19_FastFullStepAgree ==
    /\ (mode \in {"fast", "full"} /\ pc = "error") =>
          add_cycles(core_init(verifier_max_cycles, verifier_script_version),
                     transferred_byte_cycles(program_bytes)).err = result
    /\ (mode \in {"fast", "full"} /\ hist.last = "report") =>
          /\ machine.cycles = FastOutcome.m.cycles
          /\ FastOutcome.err = "ok" =>
                /\ result = "exited"
                /\ machine.exit_code = FastOutcome.m.exit_code
          /\ FastOutcome.err # "ok" => result = FastOutcome.err

(* C20: trace_dump differs from fast mode only by what it does around each
   instruction: for every script version and the same program and budget it
   decodes each instruction as fast mode does and ends with the same exit code
   or error and the same total cycles. *)
C20_TraceDumpAgreesWithFast ==
    /\ (mode = "trace_dump" /\ pc = "run" /\ machine.running) =>
          decode(vm_isa(TraceDecoderVersion(verifier_script_version)), program,
                 machine.pc)
            = decode(vm_isa(verifier_script_version), program, machine.pc)
    /\ (mode = "trace_dump" /\ hist.last = "report") =>
          /\ machine.cycles = FastOutcome.m.cycles
          /\ FastOutcome.err = "ok" =>
                /\ result = "exited"
                /\ machine.exit_code = FastOutcome.m.exit_code
          /\ FastOutcome.err # "ok" => result = FastOutcome.err

(* C21: in the gdb modes, with either handler, when the client disconnects the
   machine of the connection is run to completion and its exit code and cycle
   totals are reported: the disconnect hands the machine to the run loop, and
   a connection whose machine was not stopped by a failure does not end
   without the report. *)
C21_DisconnectRunsToCompletion ==
    /\ (hist.last = "disconnect" /\ hist.reason = "Disconnect") => pc = "run"
    /\ (/\ mode \in {"gdb", "gdb_gdbstub"}
        /\ hist.reason = "Disconnect"
        /\ pc = "done"
        /\ result \notin {"InvalidInstruction", "CyclesExceeded", "CyclesOverflow",
                          "Fault"})
          => /\ ~machine.running
             /\ Printed # None
             /\ Printed[1].run_result = machine.exit_code
             /\ Printed[1].total = machine.cycles

\* Two runs whatever the clock and the random source hand to the second one
SameOutcomeWhateverTheInputs ==
    (hist.first # None /\ Ended) => Outcome = hist.first[1]

(* C22: two runs of the same program with the same arguments, script version,
   max-cycle budget, mode and syscall inputs end the same way: the same exit
   code or error, the same total cycles, the same printed report, and in
   trace_dump the same trace array in the trace file. *)
C22_SameInputsSameOutcome ==
    (hist.first # None /\ Ended /\ syscall_inputs = hist.inputs) =>
        Outcome = hist.first[1]

\* the second trace_dump run of a program that calls TimeNow or Random and
\* exits with code 7 has written its two records over those of the first run,
\* the host handing the syscall what it handed it in the first run
C22_Witness ==
    /\ hist.first # None
    /\ hist.first[1].writer # None
    /\ hist.first[1].writer[1].json = Some(traces)
    /\ syscall_inputs = hist.inputs
    /\ pc = "returned"
    /\ writer # None
    /\ writer[1].json = Some(traces)
    /\ Len(traces) = 2
    /\ traces[1].instruction.instruction.kind = "syscall"
    /\ traces[2].registers[1] = syscall_inputs
    /\ machine.exit_code = 7

(* C23: each suspended parent is resumed with the spawn context captured at its
   own handoff: the update-caller write made on a parent when its child stops
   carries the spawn context of that child, also when handoffs are nested.
   Stated for the sessions in which no cycle arithmetic can have wrapped. *)
C23_ResumedWithOwnSpawnContext ==
    (overflow_checks /\ hist.last = "unwind") =>
        machine.updates[Len(machine.updates)].spawn_data = hist.callee.id

\* the machine of the entry the handoff of this step pops: the child the spawn
\* syscall of the step has just left in the context, else the entry on top
PoppedId ==
    IF next_id' > next_id THEN next_id
    ELSE suspended_machines[Len(suspended_machines)].machine.id

(* C24: every spawn-handoff step of machine_sget that pops an entry from the
   suspended-machine stack, whatever the variant of the entry, leaves that
   stack one entry shorter than the pop found it, grows the internal stack by
   exactly one with the paused parent on top, and makes the popped machine the
   active machine.  The handoff is taken where its cycle arithmetic does not
   wrap. *)
C24_HandoffMovesOneEntry ==
    [][(/\ pc = "sget_inner" /\ hist'.pops = hist.pops + 1
        /\ machine.cycles + Margin <= machine.max_cycles)
          => /\ Len(suspended_machines')
                   = Len(suspended_machines) + (next_id' - next_id) - 1
             /\ Len(machine_vec') = Len(machine_vec) + 1
             /\ SubSeq(machine_vec', 1, Len(machine_vec)) = machine_vec
             /\ machine_vec'[Len(machine_vec')].id = machine.id
             /\ machine'.id = PoppedId
             /\ machine'.running]_vars

\* a handoff has popped the child its step suspended: the child is the active
\* machine, its parent on top of the internal stack
C24_Witness ==
    /\ hist.last = "spawn"
    /\ hist.dropped = "CyclesExceeded"
    /\ machine.running
    /\ machine.id # hist.caller.id
    /\ machine_vec # <<>>
    /\ machine_vec[Len(machine_vec)].id = hist.caller.id

(* C25: in full and fast modes the process ends with status 0 only if the
   program ran to completion with exit code 0: a run that ends in a decode
   error, an execution fault or cycle exhaustion does not end with status 0
   (main returning Ok). *)
C25_StatusZeroOnlyOnExitZero ==
    (mode \in {"full", "fast"} /\ pc = "done") =>
        /\ result = "exited"
        /\ ~machine.running
        /\ machine.exit_code = 0

(* C26: with depth budget 0, the default, machine_sget returns the machine it
   was given without executing any instruction: program counter, registers,
   cycle counter, the internal stack and the suspended-machine stack are as
   they were when it was called, and no step of its loops is ever taken. *)
C26_DepthZeroReturnsAtOnce ==
    [][hist.budget = 0
          => /\ pc' \notin {"sget_inner", "sget_tail"}
             /\ pc = "sget_outer"
                  => /\ pc' = "session"
                     /\ result' = "sget_ok"
                     /\ machine'.pc = machine.pc
                     /\ machine'.registers = machine.registers
                     /\ machine'.cycles = machine.cycles
                     /\ machine' = machine
                     /\ machine_vec' = machine_vec
                     /\ suspended_machines' = suspended_machines]_vars

\* machine_sget has returned the loaded machine
C26_Witness ==
    /\ hist.budget = 0
    /\ hist.last = "return"
    /\ pc = "session"
    /\ machine.cycles = transferred_cycles
    /\ machine.pc = EntryPc
    /\ machine.running
    /\ machine_vec = <<>>
    /\ suspended_machines = <<>>

(* C27: in machine_sget the instruction cache of the decoder is cleared between
   any change of the active machine (handoff to a child, unwinding into a
   parent) and the next instruction decoded, and likewise after a 2043 step:
   whenever the inner loop is about to decode, the cache holds no entry
   decoded from another machine or from the image a 2043 step has left. *)
C27_NoStaleCacheAtDecode ==
    pc = "sget_inner" => decoder_cache \subseteq {Image(machine)}

\* a parent resumed by an unwinding has decoded again, after its child and a
\* 2043 step had filled the cache
C27_Witness ==
    /\ pc = "sget_inner"
    /\ decoder_cache = {Image(machine)}
    /\ hist.unwinds >= 1
    /\ hist.resets >= 1
    /\ machine.id = 0

\* machine_sget has returned a machine, returned an error or aborted
SgetEnded == pc \in {"session", "error", "panic"}

\* Where control is in an iteration of the outer loop, counted down: after a
\* break, at the loop head, in the inner loop, after the inner loop was left
\* by a machine that stopped
Phase ==
    CASE pc = "sget_tail" /\ machine.running -> 3
      [] pc = "sget_outer" -> 2
      [] pc = "sget_inner" -> 1
      [] OTHER -> 0

\* What is left of the session, in lexicographic order: the depth budget, the
\* suspended parents on the internal stack, the cycles the counter of the
\* active machine can still take, the phase
Rank ==
    IF SgetEnded THEN 0
    ELSE ((specify * (hist.budget + 1) + Len(machine_vec)) * Modulus
            + (WordMax - machine.cycles)) * 4 + Phase + 1

(* C28: machine_sget always terminates: with finite max-cycle budgets and every
   instruction costing at least one cycle, every step of its loops brings the
   session closer to its end (the depth budget, then the internal stack, then
   the cycles left to the active machine decrease), and every run reaches the
   return of a machine, the return of an error or an abort. *)
C28_SgetTerminates ==
    /\ [][(pc \in {"sget_outer", "sget_inner", "sget_tail"})
            => (Rank' >= 0 /\ Rank' < Rank)]_vars
    /\ <>SgetEnded

\* a machine is returned after a handoff, a 2043 step and an unwinding
C28_Witness ==
    /\ pc = "session"
    /\ hist.pops >= 1
    /\ hist.resets >= 1
    /\ hist.unwinds >= 1

(* C29: remote-debug connections do not influence each other: each accepted
   connection gets a freshly built machine and an empty internal stack, and
   the suspended-machine stack it finds in the session context is the one the
   first connection found, whatever the earlier connections did.  Stated for
   the listeners on which no cycle arithmetic can have wrapped. *)
C29_ConnectionsIndependent ==
    (overflow_checks /\ hist.connection > 1 /\ pc = "boot") =>
        /\ machine = core_init(verifier_max_cycles, verifier_script_version)
        /\ machine_vec = <<>>
        /\ spawn_data = None
        /\ suspended_machines = hist.seen

(* C30: the result of run_json has exactly one of cycle and error set: cycle is
   set and error is null when verification succeeds, error is set and cycle is
   null otherwise; a script hash that is not 66 characters long starting with
   "0x", or a max-cycle string that is not a number, gives an error result
   without the verification being run. *)

\* a number written in decimal: digits, at least one, after an optional sign
IsNumber(s) ==
    LET digits == IF s # <<>> /\ Head(s) \in {"+", "-"} THEN Tail(s) ELSE s
    IN /\ digits # <<>>
       /\ \A i \in 1 .. Len(digits) : IndexOf(DecDigits, digits[i]) > 0

\* exactly one member of the result is set, and it is cycle exactly when the
\* verification was run and succeeded
OneOfCycleAndError ==
    LET j == json_call.json[1]
    IN /\ (j.cycle = <<"null">>) # (j.error = <<"null">>)
       /\ (j.cycle # <<"null">>) <=> (json_call.ran /\ json_call.res[1][1] = "Ok")

C30_BadArgumentsNeverVerified ==
    json_call.pc = "returned" =>
        /\ OneOfCycleAndError
        /\ (\/ Len(json_call.hex_script_hash) # HashLen
            \/ ~starts_with(json_call.hex_script_hash, <<"0", "x">>)
            \/ ~IsNumber(json_call.max_cycle))
           => (~json_call.ran /\ json_call.json[1].error # <<"null">>)

\* The part of C30 the code keeps: one member set, by the outcome of the
\* verification; a hash whose length in bytes is not 66 or that does not start
\* with "0x", or a max-cycle string that does not parse, is never verified
JsonResultShape ==
    json_call.pc = "returned" =>
        /\ OneOfCycleAndError
        /\ (\/ len(json_call.hex_script_hash) # HashLen
            \/ ~starts_with(json_call.hex_script_hash, <<"0", "x">>)
            \/ ~IsNumber(json_call.max_cycle))
           => (~json_call.ran /\ json_call.json[1].error # <<"null">>)

====
